---------------------------- MODULE Spec2Model ----------------------------
(***************************************************************************)
(* Model of the cross-source deduplication engine of ufo-dedup             *)
(* (src/dedup.py): the text normalizer, the similarity scorer, the         *)
(* blocking engine, the three matching tiers and the duplicate_candidate   *)
(* store (src/create_schema.py).                                           *)
(*                                                                         *)
(* Representation.                                                         *)
(*   - A Python str is a sequence of one-character strings,                *)
(*     "orb" is <<"o","r","b">>; Python None / SQL NULL is the value None. *)
(*   - A float is an exact rational <<n, d>> in lowest terms (d > 0).      *)
(*     Every float the engine compares is either a literal or one          *)
(*     correctly rounded quotient of two small integers, so comparing the  *)
(*     rationals gives the comparisons of the floats.                      *)
(*   - The sighting and location tables are one function from sighting id  *)
(*     to a record; loc.id = 0 is a sighting whose location_id joins no   *)
(*     location row.                                                       *)
(*   - The duplicate_candidate table is a bag of rows.                     *)
(***************************************************************************)
EXTENDS Integers, Sequences, FiniteSets, Bags, TLC

(***************************************************************************)
(* Strings                                                                 *)
(***************************************************************************)

None == <<"None">>

\* Python truthiness of an optional string: `not s`.
Falsy(s) == s = None \/ s = <<>>

LowerChars == <<"a","b","c","d","e","f","g","h","i","j","k","l","m",
                "n","o","p","q","r","s","t","u","v","w","x","y","z">>

UpperChars == <<"A","B","C","D","E","F","G","H","I","J","K","L","M",
                "N","O","P","Q","R","S","T","U","V","W","X","Y","Z">>

Digits == {"0","1","2","3","4","5","6","7","8","9"}

\* The characters \s matches (and str.strip() removes) within the alphabet.
Whitespace == {" ", "\t", "\n"}

Range(f) == {f[i] : i \in DOMAIN f}

\* The characters \w matches.
WordChars == Range(LowerChars) \cup Range(UpperChars) \cup Digits \cup {"_"}

Min(x, y) == IF x <= y THEN x ELSE y

Max(x, y) == IF x >= y THEN x ELSE y

ToUpper(c) ==
    IF c \in Range(LowerChars)
    THEN UpperChars[CHOOSE i \in 1..26 : LowerChars[i] = c]
    ELSE c

ToLower(c) ==
    IF c \in Range(UpperChars)
    THEN LowerChars[CHOOSE i \in 1..26 : UpperChars[i] = c]
    ELSE c

upper(s) == [i \in 1..Len(s) |-> ToUpper(s[i])]

lower(s) == [i \in 1..Len(s) |-> ToLower(s[i])]

\* s[from:] with a 1-based first index.
Drop(s, from) == SubSeq(s, from, Len(s))

\* s[:n]
Take(s, n) == SubSeq(s, 1, Min(n, Len(s)))

\* The last index e >= from - 1 with s[from..e] all in class: the end of the
\* greedy run of class characters that starts at from.
SpanEnd(s, from, class) ==
    CHOOSE e \in (from - 1)..Len(s) :
        /\ \A k \in from..e : s[k] \in class
        /\ (e = Len(s) \/ s[e + 1] \notin class)

\* The first index b <= to + 1 with s[b..to] all in class.
SpanStart(s, to, class) ==
    CHOOSE b \in 1..(to + 1) :
        /\ \A k \in b..to : s[k] \in class
        /\ (b = 1 \/ s[b - 1] \notin class)

lstrip(s) == Drop(s, SpanEnd(s, 1, Whitespace) + 1)

rstrip(s) == SubSeq(s, 1, SpanStart(s, Len(s), Whitespace) - 1)

strip(s) == rstrip(lstrip(s))

startswith(s, p) == Len(p) <= Len(s) /\ SubSeq(s, 1, Len(p)) = p

\* p occurs in s at index i.
OccursAt(s, p, i) ==
    i >= 1 /\ i + Len(p) - 1 <= Len(s) /\ SubSeq(s, i, i + Len(p) - 1) = p

\* Python `p in s`.
Contains(s, p) == \E i \in 1..(Len(s) + 1) : OccursAt(s, p, i)

(***************************************************************************)
(* Floats as rationals                                                     *)
(***************************************************************************)

RECURSIVE Gcd(_, _)
Gcd(x, y) == IF y = 0 THEN x ELSE Gcd(y, x % y)

\* n / d for d > 0, n >= 0.
Rat(n, d) == <<n \div Gcd(n, d), d \div Gcd(n, d)>>

RatLess(p, q) == p[1] * q[2] < q[1] * p[2]

RatGeq(p, q) == ~RatLess(p, q)

Zero == <<0, 1>>

(***************************************************************************)
(* Text normalizer                                                         *)
(***************************************************************************)

\* 'NUFORC UFO Sighting'
NUFORC_PREFIX ==
    <<"N","U","F","O","R","C"," ","U","F","O"," ","S","i","g","h","t","i","n",
      "g">>

\* re.sub(r'^NUFORC UFO Sighting \d+\s*', '', desc): the prefix, one space, a
\* greedy run of at least one digit, a greedy run of whitespace; desc itself
\* when the pattern does not match.
SubNuforcPrefix(desc) ==
    LET p == Len(NUFORC_PREFIX) + 1
    IN  IF /\ startswith(desc, NUFORC_PREFIX)
           /\ Len(desc) >= p + 1
           /\ desc[p] = " "
           /\ desc[p + 1] \in Digits
        THEN Drop(desc, SpanEnd(desc, SpanEnd(desc, p + 1, Digits) + 1, Whitespace) + 1)
        ELSE desc

strip_nuforc_prefix(desc) ==
    IF Falsy(desc) THEN desc
    ELSE IF startswith(desc, NUFORC_PREFIX) THEN strip(SubNuforcPrefix(desc))
    ELSE desc

\* 'Submitted by razor via e-mail'
MUFON_MARKER ==
    <<"S","u","b","m","i","t","t","e","d"," ","b","y"," ","r","a","z","o","r",
      " ","v","i","a"," ","e","-","m","a","i","l">>

\* The slice desc[:60] the marker is looked for in.
MUFON_MARKER_WINDOW == 60

INVESTIGATOR == <<"I","n","v","e","s","t","i","g","a","t","o","r">>

\* The places group 1 of r'Investigators?\s*Not(?:es?)?[.:,]?\s*(.+)' can start
\* at, in the order the backtracking matcher tries them: every greedy choice
\* first. q is the index after the part matched so far.
MufonWsStarts(desc, q) ==
    LET m == SpanEnd(desc, q, Whitespace) - q + 1
    IN  [k \in 1..(m + 1) |-> q + m + 1 - k]

MufonPunctStarts(desc, q) ==
    (IF q <= Len(desc) /\ desc[q] \in {".", ":", ","}
     THEN MufonWsStarts(desc, q + 1) ELSE <<>>)
    \o MufonWsStarts(desc, q)

MufonNoteStarts(desc, q) ==
    (IF OccursAt(desc, <<"e", "s">>, q) THEN MufonPunctStarts(desc, q + 2) ELSE <<>>)
    \o (IF OccursAt(desc, <<"e">>, q) THEN MufonPunctStarts(desc, q + 1) ELSE <<>>)
    \o MufonPunctStarts(desc, q)

\* Group-1 starts of a match that begins at index i (empty: no match at i).
\* (.+) needs one character at least; with DOTALL it runs to the end.
MufonGroupStarts(desc, i) ==
    IF ~OccursAt(desc, INVESTIGATOR, i) THEN <<>>
    ELSE LET a  == i + Len(INVESTIGATOR)
             a1 == IF OccursAt(desc, <<"s">>, a) THEN a + 1 ELSE a
             b  == SpanEnd(desc, a1, Whitespace) + 1
         IN  IF ~OccursAt(desc, <<"N", "o", "t">>, b) THEN <<>>
             ELSE SelectSeq(MufonNoteStarts(desc, b + 3), LAMBDA p : p <= Len(desc))

strip_mufon_boilerplate(desc) ==
    IF Falsy(desc) THEN desc
    ELSE IF Contains(Take(desc, MUFON_MARKER_WINDOW), MUFON_MARKER)
    THEN LET hits == {i \in 1..Len(desc) : MufonGroupStarts(desc, i) # <<>>}
         IN  IF hits = {} THEN desc
             ELSE LET i == CHOOSE x \in hits : \A y \in hits : x <= y
                  IN  strip(Drop(desc, Head(MufonGroupStarts(desc, i))))
    ELSE desc

\* c = re.sub(r'\s*\(.*\)\s*$', '', c) on a stripped string: the leftmost match
\* starts at the whitespace run before the first "(", and there is a match
\* only when ")" (followed by whitespace only) ends the string after it.
SubParenthetical(c) ==
    LET e     == SpanStart(c, Len(c), Whitespace) - 1
        \* "." does not match a newline
        opens == {i \in 1..(e - 1) :
                    c[i] = "(" /\ \A k \in (i + 1)..(e - 1) : c[k] # "\n"}
    IN  IF e >= 1 /\ c[e] = ")" /\ opens # {}
        THEN LET f == CHOOSE x \in opens : \A y \in opens : x <= y
             IN  SubSeq(c, 1, SpanStart(c, f - 1, Whitespace) - 1)
        ELSE c

\* c = re.sub(r'[\?\.\!]+$', '', c)
SubTrailingPunct(c) == SubSeq(c, 1, SpanStart(c, Len(c), {"?", ".", "!"}) - 1)

\* c = re.sub(r'\s+', ' ', c): every whitespace run becomes one space.
RECURSIVE CollapseWs(_)
CollapseWs(c) ==
    IF c = <<>> THEN <<>>
    ELSE IF c[1] \in Whitespace
    THEN <<" ">> \o CollapseWs(Drop(c, SpanEnd(c, 1, Whitespace) + 1))
    ELSE <<c[1]>> \o CollapseWs(Tail(c))

normalize_city(city_str) ==
    IF Falsy(city_str) THEN <<>>
    ELSE strip(CollapseWs(SubTrailingPunct(SubParenthetical(upper(strip(city_str))))))

\* US state abbreviations and Canadian provinces for UFO-search location parsing.
US_STATES ==
    {<<"A","B">>,<<"A","K">>,<<"A","L">>,<<"A","R">>,<<"A","S">>,<<"A","Z">>,
     <<"B","C">>,<<"C","A">>,<<"C","O">>,<<"C","T">>,<<"D","C">>,<<"D","E">>,
     <<"F","L">>,<<"G","A">>,<<"G","U">>,<<"H","I">>,<<"I","A">>,<<"I","D">>,
     <<"I","L">>,<<"I","N">>,<<"K","S">>,<<"K","Y">>,<<"L","A">>,<<"M","A">>,
     <<"M","B">>,<<"M","D">>,<<"M","E">>,<<"M","I">>,<<"M","N">>,<<"M","O">>,
     <<"M","P">>,<<"M","S">>,<<"M","T">>,<<"N","B">>,<<"N","C">>,<<"N","D">>,
     <<"N","E">>,<<"N","H">>,<<"N","J">>,<<"N","L">>,<<"N","M">>,<<"N","S">>,
     <<"N","T">>,<<"N","U">>,<<"N","V">>,<<"N","Y">>,<<"O","H">>,<<"O","K">>,
     <<"O","N">>,<<"O","R">>,<<"P","A">>,<<"P","E">>,<<"P","R">>,<<"Q","C">>,
     <<"R","I">>,<<"S","C">>,<<"S","D">>,<<"S","K">>,<<"T","N">>,<<"T","X">>,
     <<"U","T">>,<<"V","A">>,<<"V","I">>,<<"V","T">>,<<"W","A">>,<<"W","I">>,
     <<"W","V">>,<<"W","Y">>,<<"Y","T">>}

Letters == Range(LowerChars) \cup Range(UpperChars)

\* Whether t[j..] matches \s*([A-Z]{2})\s*\??$ under re.I; j is the index after
\* the comma.
UfosearchTailMatches(t, j) ==
    LET u == SpanEnd(t, j, Whitespace)
    IN  /\ u + 2 <= Len(t)
        /\ t[u + 1] \in Letters
        /\ t[u + 2] \in Letters
        /\ LET v == SpanEnd(t, u + 3, Whitespace)
           IN  v = Len(t) \/ (v + 1 = Len(t) /\ t[v + 1] = "?")

\* re.match(r'^(.+?),\s*([A-Z]{2})\s*\??$', raw_text.strip(), re.I): the lazy
\* group 1 ends before the first comma after which the tail matches; "." does
\* not match a newline. The result is <<city, state>>, <<None, None>> for none.
parse_ufosearch_city_state(raw_text) ==
    IF Falsy(raw_text) THEN <<None, None>>
    ELSE LET t      == strip(raw_text)
             commas == {k \in 2..Len(t) :
                          /\ t[k] = ","
                          /\ \A x \in 1..(k - 1) : t[x] # "\n"
                          /\ UfosearchTailMatches(t, k + 1)}
         IN  IF commas = {} THEN <<None, None>>
             ELSE LET k  == CHOOSE x \in commas : \A y \in commas : x <= y
                      u  == SpanEnd(t, k + 1, Whitespace)
                      st == upper(SubSeq(t, u + 1, u + 2))
                  IN  IF st \in US_STATES
                      THEN <<upper(strip(SubSeq(t, 1, k - 1))), st>>
                      ELSE <<None, None>>

(***************************************************************************)
(* Similarity scorer                                                       *)
(***************************************************************************)

\* set(re.findall(r'\w+', s)): the maximal runs of word characters.
Tokens(s) ==
    {SubSeq(s, i, SpanEnd(s, i, WordChars)) :
        i \in {x \in 1..Len(s) :
                 s[x] \in WordChars /\ (x = 1 \/ s[x - 1] \notin WordChars)}}

token_jaccard(a, b) ==
    IF Falsy(a) \/ Falsy(b) THEN Zero
    ELSE LET a_tokens == Tokens(lower(a))
             b_tokens == Tokens(lower(b))
         IN  IF a_tokens = {} \/ b_tokens = {} THEN Zero
             ELSE Rat(Cardinality(a_tokens \cap b_tokens),
                      Cardinality(a_tokens \cup b_tokens))

\* The length of the common run of a and b that starts at a[i], b[j] and stays
\* within a[..ahi], b[..bhi].
RECURSIVE RunLen(_, _, _, _, _, _)
RunLen(a, b, i, j, ahi, bhi) ==
    IF i > ahi \/ j > bhi \/ a[i] # b[j] THEN 0
    ELSE 1 + RunLen(a, b, i + 1, j + 1, ahi, bhi)

\* difflib.SequenceMatcher.find_longest_match without junk (isjunk is None;
\* autojunk only acts on a second sequence of 200 elements or more): the
\* longest block a[i..i+k-1] = b[j..j+k-1] within a[alo..ahi], b[blo..bhi]; of
\* the longest, the one that starts earliest in a, and of those the one that
\* starts earliest in b. <<i, j, k>>, with k = 0 when nothing matches.
find_longest_match(a, b, alo, ahi, blo, bhi) ==
    LET starts == {p \in (alo..ahi) \X (blo..bhi) : a[p[1]] = b[p[2]]}
    IN  IF starts = {} THEN <<alo, blo, 0>>
        ELSE LET len  == [p \in starts |-> RunLen(a, b, p[1], p[2], ahi, bhi)]
                 k    == CHOOSE x \in Range(len) : \A y \in Range(len) : x >= y
                 long == {p \in starts : len[p] = k}
                 i    == CHOOSE x \in {p[1] : p \in long} :
                            \A y \in {p[1] : p \in long} : x <= y
                 j    == CHOOSE x \in {p[2] : p \in {q \in long : q[1] = i}} :
                            \A y \in {p[2] : p \in {q \in long : q[1] = i}} : x <= y
             IN  <<i, j, k>>

\* The total size of SequenceMatcher.get_matching_blocks: the longest match,
\* then the same to its left and to its right.
RECURSIVE MatchingSize(_, _, _, _, _, _)
MatchingSize(a, b, alo, ahi, blo, bhi) ==
    IF alo > ahi \/ blo > bhi THEN 0
    ELSE LET m == find_longest_match(a, b, alo, ahi, blo, bhi)
         IN  IF m[3] = 0 THEN 0
             ELSE m[3]
                  + MatchingSize(a, b, alo, m[1] - 1, blo, m[2] - 1)
                  + MatchingSize(a, b, m[1] + m[3], ahi, m[2] + m[3], bhi)

\* A ratio that is not divided by the lengths: 2.0 * matches.
SequenceMatcherMatches(a, b) ==
    <<2 * MatchingSize(a, b, 1, Len(a), 1, Len(b)), 1>>

\* difflib.SequenceMatcher(None, a, b).ratio() = 2.0 * matches / (len(a) + len(b))
SequenceMatcherRatio(a, b) ==
    IF Len(a) + Len(b) = 0 THEN <<1, 1>>
    ELSE Rat(2 * MatchingSize(a, b, 1, Len(a), 1, Len(b)), Len(a) + Len(b))

SRC_MUFON == 1

SRC_NUFORC == 2

SRC_UFOCAT == 3

SRC_UPDB == 4

SRC_UFOSEARCH == 5

\* "Need at least 20 chars for meaningful starts-with"
STARTS_WITH_MIN == 20

\* The score of the starts-with shortcut, 0.95
STARTS_WITH_SCORE == <<19, 20>>

\* The Jaccard value below which the scorer returns the Jaccard itself, 0.03
JACCARD_FLOOR == <<3, 100>>

\* The slice [:1000] the alignment runs on.
ALIGN_MAX_CHARS == 1000

\* A preprocessing that strips nothing.
PreprocessedUnstripped(desc, source) == desc

\* "Preprocess": the NUFORC prefix and the MUFON boilerplate are stripped
\* from the description of a sighting of that source.
Preprocessed(desc, source) ==
    LET stripped == IF source = SRC_NUFORC THEN strip_nuforc_prefix(desc) ELSE desc
    IN  IF source = SRC_MUFON THEN strip_mufon_boilerplate(stripped) ELSE stripped

\* The Jaccard gate and the alignment of the preprocessed a and b.
Aligned(a, b, jaccard) ==
    IF RatLess(jaccard, JACCARD_FLOOR) THEN jaccard
    ELSE SequenceMatcherRatio(Take(a, ALIGN_MAX_CHARS), Take(b, ALIGN_MAX_CHARS))

\* The starts-with shortcut on a_norm and b_norm, and what follows it.
Shortcut(a, b, a_norm, b_norm, shorter) ==
    IF /\ shorter >= STARTS_WITH_MIN
       /\ \/ startswith(b_norm, Take(a_norm, shorter))
          \/ startswith(a_norm, Take(b_norm, shorter))
    THEN STARTS_WITH_SCORE
    ELSE Aligned(a, b, token_jaccard(a, b))

\* a_norm = a.strip().lower(), b_norm likewise, shorter = min of their lengths
Normalized2(a, b, a_norm, b_norm) ==
    Shortcut(a, b, a_norm, b_norm, Min(Len(a_norm), Len(b_norm)))

\* The score of the preprocessed descriptions a and b.
Compared(a, b) ==
    IF Falsy(a) \/ Falsy(b) THEN Zero
    ELSE Normalized2(a, b, lower(strip(a)), lower(strip(b)))

compute_similarity(desc_a, desc_b, source_a, source_b) ==
    IF Falsy(desc_a) \/ Falsy(desc_b) THEN Zero
    ELSE Compared(Preprocessed(desc_a, source_a), Preprocessed(desc_b, source_b))

(***************************************************************************)
(* The sightings of the databases                                          *)
(***************************************************************************)

\* A date_event of day precision
DATE_DAY == <<"2","0","0","5","-","0","6","-","1","5">>

\* The same day with a time of day
DATE_MINUTE == <<"2","0","0","5","-","0","6","-","1","5","T","2","1",":","0","0">>

\* A date_event shorter than ten characters (tests/test_dedup.py uses '2005')
DATE_YEAR == <<"2","0","0","5">>

CITY_PHOENIX == <<"P","h","o","e","n","i","x">>

CITY_PHOENIX_NORTH == <<"P","h","o","e","n","i","x"," ","(","N","o","r","t","h",")">>

CITY_PHOENIX_UPPER == <<"P","H","O","E","N","I","X">>

CITY_TUCSON == <<"T","u","c","s","o","n">>

\* The raw_text of a UFO-search location
RAW_PHOENIX_AZ == <<"P","h","o","e","n","i","x",","," ","A","Z">>

STATE_AZ == <<"A","Z">>

STATE_AZ_LOWER == <<" ","a","z">>

STATE_NM == <<"N","M">>

\* 'US', the country_filter of sub-phase 2c
COUNTRY_US == <<"U","S">>

COUNTRY_USA == <<"U","S","A">>

COUNTRY_GB == <<"G","B">>

DESC_ORB ==
    <<"B","r","i","g","h","t"," ","o","r","a","n","g","e"," ","o","r","b"," ",
      "h","o","v","e","r","i","n","g"," ","s","i","l","e","n","t","l","y">>

\* The same report behind the NUFORC prefix
DESC_ORB_NUFORC ==
    <<"N","U","F","O","R","C"," ","U","F","O"," ","S","i","g","h","t","i","n",
      "g"," ","7","8","4","3","2"," ","B","r","i","g","h","t"," ","o","r",
      "a","n","g","e"," ","o","r","b"," ","h","o","v","e","r","i","n","g",
      " ","s","i","l","e","n","t","l","y">>

DESC_ORB_SHORT == <<"B","r","i","g","h","t"," ","o","r","a","n","g","e"," ","o","r","b">>

DESC_ORB_REVERSED ==
    <<"s","i","l","e","n","t","l","y"," ","h","o","v","e","r","i","n","g"," ",
      "o","r","b">>

DESC_ORB_STRANGE == <<"S","t","r","a","n","g","e"," ","o","r","b">>

\* A MUFON report behind the submission boilerplate
DESC_ORB_MUFON ==
    <<"S","u","b","m","i","t","t","e","d"," ","b","y"," ","r","a","z","o","r",
      " ","v","i","a"," ","e","-","m","a","i","l","."," ","I","n","v","e",
      "s","t","i","g","a","t","o","r"," ","N","o","t","e","s",":"," ","B",
      "r","i","g","h","t"," ","o","r","a","n","g","e"," ","o","r","b">>

\* The loc.id of a sighting whose location_id is NULL: it joins no location.
NO_LOCATION == 0

\* A location row (raw_text, city, state, country).
Location(raw_text, city, state, country) ==
    [id |-> 1, raw_text |-> raw_text, city |-> city, state |-> state,
     country |-> country]

\* What a sighting without a location carries in the place of one.
NoLocation ==
    [id |-> NO_LOCATION, raw_text |-> None, city |-> None, state |-> None,
     country |-> None]

\* A sighting row with the location row it joins.
Sighting(source_db_id, date_event, loc, description) ==
    [source_db_id |-> source_db_id, date_event |-> date_event, loc |-> loc,
     description |-> description]

\* The sightings the databases are drawn from: the five sources, dates of
\* day and minute precision, a short date and no date, cities and states in
\* several spellings, a UPDB record outside the US, a description with
\* the boilerplate of each source, and descriptions that score 0.95, above
\* and below 0.5, and 0.0.
Catalogue ==
    << Sighting(SRC_NUFORC, DATE_MINUTE,
                Location(CITY_PHOENIX_NORTH, CITY_PHOENIX_NORTH, STATE_AZ_LOWER, COUNTRY_USA),
                DESC_ORB_NUFORC),
       Sighting(SRC_MUFON, DATE_DAY,
                Location(CITY_PHOENIX, CITY_PHOENIX, STATE_AZ, COUNTRY_US),
                DESC_ORB),
       Sighting(SRC_NUFORC, DATE_DAY,
                Location(CITY_PHOENIX, CITY_PHOENIX, STATE_AZ, COUNTRY_USA),
                None),
       Sighting(SRC_UFOCAT, DATE_DAY,
                Location(CITY_PHOENIX_UPPER, None, STATE_AZ, None),
                DESC_ORB_SHORT),
       Sighting(SRC_UPDB, DATE_DAY,
                Location(CITY_PHOENIX, CITY_PHOENIX, None, COUNTRY_US),
                DESC_ORB_REVERSED),
       Sighting(SRC_UFOSEARCH, DATE_DAY,
                Location(RAW_PHOENIX_AZ, None, None, None),
                DESC_ORB_STRANGE),
       Sighting(SRC_UPDB, DATE_DAY,
                Location(CITY_PHOENIX, CITY_PHOENIX, None, COUNTRY_GB),
                DESC_ORB),
       Sighting(SRC_MUFON, DATE_YEAR,
                Location(CITY_TUCSON, CITY_TUCSON, STATE_AZ, COUNTRY_US),
                DESC_ORB),
       Sighting(SRC_NUFORC, DATE_YEAR,
                Location(CITY_TUCSON, CITY_TUCSON, STATE_AZ, COUNTRY_USA),
                DESC_ORB_NUFORC),
       Sighting(SRC_MUFON, DATE_DAY,
                Location(CITY_PHOENIX, CITY_PHOENIX, STATE_NM, COUNTRY_US),
                DESC_ORB_MUFON),
       Sighting(SRC_NUFORC, None,
                Location(CITY_PHOENIX, CITY_PHOENIX, STATE_AZ, COUNTRY_USA),
                DESC_ORB_NUFORC) >>

\* A sighting that only adds to the records of its date: no location, no
\* description.
Filler == Sighting(SRC_MUFON, DATE_DAY, NoLocation, None)

\* Every sighting a database can hold.
Stock == Range(Catalogue) \cup {Filler}

\* compute_similarity(desc_a, desc_b, source_a, source_b) on the descriptions
\* and sources of every two sightings, worked out once.
Similarity ==
    [args \in {<<a.description, b.description, a.source_db_id, b.source_db_id>> :
                  a \in Stock, b \in Stock} |->
        compute_similarity(args[1], args[2], args[3], args[4])]

\* token_jaccard of two descriptions cleaned as tier 3 cleans them, worked
\* out once.
CleanedJaccard ==
    [args \in {<<a.description, b.description>> : a \in Stock, b \in Stock} |->
        token_jaccard(
            strip_nuforc_prefix(strip_mufon_boilerplate(
                IF Falsy(args[1]) THEN <<>> ELSE args[1])),
            strip_nuforc_prefix(strip_mufon_boilerplate(
                IF Falsy(args[2]) THEN <<>> ELSE args[2])))]

(***************************************************************************)
(* State                                                                   *)
(***************************************************************************)

VARIABLES
    sighting,             \* the sighting table joined with its location row
    duplicate_candidate,  \* the duplicate_candidate table, a bag of rows
    pc,                   \* "idle", or the tier that is running
    pending,              \* the insert batches the running tier has still to commit
    rowcount,             \* what the last insert_candidates call returned
    history,              \* history: the runs of one tier that followed each other
    returned,             \* the last call made of a function alone, and its value
    main                  \* the processes that run main(): how far each has got

vars ==
    <<sighting, duplicate_candidate, pc, pending, rowcount, history, returned, main>>

\* A set of integers as the sequence of its elements in increasing order.
RECURSIVE SortedSeq(_)
SortedSeq(S) ==
    IF S = {} THEN <<>>
    ELSE LET m == CHOOSE x \in S : \A y \in S : x <= y
         IN  <<m>> \o SortedSeq(S \ {m})

\* A sequence of sequences, concatenated.
RECURSIVE Concat(_)
Concat(ss) == IF ss = <<>> THEN <<>> ELSE Head(ss) \o Concat(Tail(ss))

\* for x in xs: for y in ys: ... as the sequence of the pairs <<x, y>>
Cross(xs, ys) ==
    Concat([i \in 1..Len(xs) |-> [j \in 1..Len(ys) |-> <<xs[i], ys[j]>>]])

\* Every order a set can be iterated in (a Python set of tuples of strings, or
\* the rows of a query without ORDER BY, comes in no specified order).
Orders(S) ==
    {o \in [1..Cardinality(S) -> S] : \A i, j \in 1..Cardinality(S) : o[i] = o[j] => i = j}

(***************************************************************************)
(* Candidate store                                                         *)
(***************************************************************************)

\* One row of duplicate_candidate from a candidate tuple
\* (sighting_id_a, sighting_id_b, similarity_score, match_method, status).
Row(c) ==
    [sighting_id_a |-> c[1], sighting_id_b |-> c[2], similarity_score |-> c[3],
     match_method |-> c[4], status |-> c[5]]

Rows(store) == BagToSet(store)

\* insert_candidates without the min/max of its normalization: self-pairs are
\* skipped, the others stored as they come.
NormalizedUnordered(candidates) == SelectSeq(candidates, LAMBDA c : c[1] # c[2])

\* insert_candidates without the `if a_id == b_id: continue` of its
\* normalization: every tuple is ordered and kept.
NormalizedKeepingSelfPairs(candidates) ==
    [k \in 1..Len(candidates) |->
        <<Min(candidates[k][1], candidates[k][2]), Max(candidates[k][1], candidates[k][2]),
          candidates[k][3], candidates[k][4], candidates[k][5]>>]

\* "Normalize: ensure a < b": self-pairs are skipped, the others ordered.
Normalized(candidates) ==
    LET kept == SelectSeq(candidates, LAMBDA c : c[1] # c[2])
    IN  [k \in 1..Len(kept) |->
            <<Min(kept[k][1], kept[k][2]), Max(kept[k][1], kept[k][2]),
              kept[k][3], kept[k][4], kept[k][5]>>]

\* A duplicate_candidate table without its UNIQUE constraint: no insert
\* conflicts.
ConflictsNever(store, c) == FALSE

\* UNIQUE (sighting_id_a, sighting_id_b): the row an insert would conflict with.
Conflicts(store, c) ==
    \E r \in Rows(store) : r.sighting_id_a = c[1] /\ r.sighting_id_b = c[2]

\* cur.executemany("INSERT OR REPLACE ..."): a tuple takes the place of the row
\* it conflicts with.
RECURSIVE ExecuteManyReplacing(_, _, _)
ExecuteManyReplacing(store, normalized, count) ==
    IF normalized = <<>> THEN [store |-> store, rowcount |-> count]
    ELSE LET c    == Head(normalized)
             kept == {r \in Rows(store) :
                         ~(r.sighting_id_a = c[1] /\ r.sighting_id_b = c[2])}
         IN  ExecuteManyReplacing([r \in kept |-> store[r]] (+) SetToBag({Row(c)}),
                                  Tail(normalized), count + 1)

\* cur.executemany("INSERT OR IGNORE ..."): each tuple in turn; rowcount sums
\* the rows each statement changed.
RECURSIVE ExecuteMany(_, _, _)
ExecuteMany(store, normalized, count) ==
    IF normalized = <<>> THEN [store |-> store, rowcount |-> count]
    ELSE IF Conflicts(store, Head(normalized))
    THEN ExecuteMany(store, Tail(normalized), count)
    ELSE ExecuteMany(store (+) SetToBag({Row(Head(normalized))}),
                     Tail(normalized), count + 1)

\* insert_candidates returning len(candidates) in the place of the rowcount.
InsertCandidatesCountingTuples(store, candidates) ==
    [store    |-> ExecuteMany(store, Normalized(candidates), 0).store,
     rowcount |-> Len(candidates)]

\* insert_candidates(conn, candidates): the store after the commit and the
\* value returned.
insert_candidates(store, candidates) ==
    IF candidates = <<>> THEN [store |-> store, rowcount |-> 0]
    ELSE ExecuteMany(store, Normalized(candidates), 0)

(***************************************************************************)
(* Blocking / grouping engine                                              *)
(*                                                                         *)
(* conn, the connection every function of dedup.py takes, is the sighting  *)
(* table it reads.                                                         *)
(***************************************************************************)

\* The characters of SUBSTR(date_event, 1, 10), and of LENGTH(date_event) >= 10.
DATE_CHARS == 10

\* SUBSTR(s.date_event, 1, 10)
DateKey(conn, id) == Take(conn[id].date_event, DATE_CHARS)

\* FROM sighting s JOIN location l ON s.location_id = l.id
\* WHERE s.source_db_id = ? AND s.date_event IS NOT NULL
Joined(conn, source_db_id) ==
    {id \in DOMAIN conn : /\ conn[id].source_db_id = source_db_id
                          /\ conn[id].date_event # None
                          /\ conn[id].loc.id # NO_LOCATION}

\* (state or '').strip().upper()
StateNorm(state) == IF Falsy(state) THEN <<>> ELSE upper(strip(state))

\* key = (d, city_n, state_n) of one row; the city is l.raw_text or l.city.
FullKey(conn, id, use_raw_text_as_city) ==
    LET l == conn[id].loc
    IN  <<DateKey(conn, id),
          normalize_city(IF use_raw_text_as_city THEN l.raw_text ELSE l.city),
          StateNorm(l.state)>>

\* A grouping: each key with the rows appended to it, in row (id) order, and
\* the number of rows kept. key[id] is the key of a row and entry[id] the
\* tuple stored for it.
Grouped(kept, key, entry) ==
    [groups |-> [k \in {key[id] : id \in kept} |->
                    LET ids == SortedSeq({id \in kept : key[id] = k})
                    IN  [i \in 1..Len(ids) |-> entry[ids[i]]]],
     count  |-> Cardinality(kept)]

\* A grouping loop without its `continue`: every row is grouped.
KeptAll(rows, key) == rows

\* `if not d or not city_n: continue` (`if city and d` in sub-phase 2d): the
\* rows that are grouped.
Kept(rows, key) == {id \in rows : ~(Falsy(key[id][1]) \/ Falsy(key[id][2]))}

\* groups[key].append((sid, desc)) for the rows kept
GroupedRows(conn, rows, key) ==
    Grouped(Kept(rows, key), key, [id \in rows |-> <<id, conn[id].description>>])

\* load_source_sightings(conn, source_db_id, use_raw_text_as_city): a row
\* without a date key or with an empty normalized city is skipped.
load_source_sightings(conn, source_db_id, use_raw_text_as_city) ==
    GroupedRows(conn, Joined(conn, source_db_id),
                [id \in Joined(conn, source_db_id) |->
                    FullKey(conn, id, use_raw_text_as_city)])

\* TRIM(l.city) of SQLite removes spaces only.
SqlTrim(s) == SubSeq(s, SpanEnd(s, 1, {" "}) + 1, SpanStart(s, Len(s), {" "}) - 1)

\* A selection without `AND l.country = ?`: the rows of every country.
CityRowsAnyCountry(conn, source_db_id, country_filter) ==
    {id \in Joined(conn, source_db_id) :
        /\ conn[id].loc.city # None
        /\ SqlTrim(conn[id].loc.city) # <<>>}

\* The rows load_source_sightings_city_only selects: those of the country, if
\* one is asked for, with l.city IS NOT NULL AND TRIM(l.city) != ''.
CityRows(conn, source_db_id, country_filter) ==
    {id \in Joined(conn, source_db_id) :
        /\ Falsy(country_filter) \/ conn[id].loc.country = country_filter
        /\ conn[id].loc.city # None
        /\ SqlTrim(conn[id].loc.city) # <<>>}

\* groups[key].append((sid, desc, src_id)) for the rows kept
GroupedCityRows(conn, rows, key) ==
    Grouped(Kept(rows, key), key,
            [id \in rows |-> <<id, conn[id].description, conn[id].source_db_id>>])

\* load_source_sightings_city_only(conn, source_db_id, country_filter), keyed
\* by (date, city_norm); country_filter = None is no filter.
load_source_sightings_city_only(conn, source_db_id, country_filter) ==
    GroupedCityRows(conn, CityRows(conn, source_db_id, country_filter),
                    [id \in CityRows(conn, source_db_id, country_filter) |->
                        <<DateKey(conn, id), normalize_city(conn[id].loc.city)>>])

\* "Convert to (date, city) keys (dropping state)": the groups of a full-key
\* grouping that share date and city, one after the other in the order the
\* grouping got them (the order of their first rows).
DropState(groups) ==
    [k2 \in {<<k[1], k[2]>> : k \in DOMAIN groups} |->
        LET ks     == {k \in DOMAIN groups : <<k[1], k[2]>> = k2}
            firsts == SortedSeq({groups[k][1][1] : k \in ks})
        IN  Concat([i \in 1..Len(firsts) |->
                       groups[CHOOSE k \in ks : groups[k][1][1] = firsts[i]]])]

\* (d, city, state or '') from d and the parsed (city, state)
ParsedKey(d, city_state) ==
    <<d, city_state[1], IF Falsy(city_state[2]) THEN <<>> ELSE city_state[2]>>

\* The key sub-phase 2d parses from the raw_text of a UFO-search row.
UfosearchKey(conn, id) ==
    ParsedKey(DateKey(conn, id),
              parse_ufosearch_city_state(IF Falsy(conn[id].loc.raw_text) THEN <<>>
                                         ELSE conn[id].loc.raw_text))

\* The UFO-search grouping of sub-phase 2d: rows with a parsed city and a date.
UfosearchGroups(conn) ==
    GroupedRows(conn, Joined(conn, SRC_UFOSEARCH),
                [id \in Joined(conn, SRC_UFOSEARCH) |-> UfosearchKey(conn, id)])

(***************************************************************************)
(* Tiered matcher                                                          *)
(***************************************************************************)

\* A matcher that keeps the pairs of a key only when they score above 0.0.
KeyCandidatesAboveZero(as, bs, source_a, source_b, method) ==
    LET pairs == SelectSeq(Cross(as, bs),
                           LAMBDA p : Similarity[<<p[1][2], p[2][2], source_a, source_b>>]
                                          # Zero)
    IN  [k \in 1..Len(pairs) |->
            <<pairs[k][1][1], pairs[k][2][1],
              Similarity[<<pairs[k][1][2], pairs[k][2][2], source_a, source_b>>],
              method, "pending">>]

\* for x in ga[key]: for y in gb[key]: candidates.append((x_id, y_id,
\*     compute_similarity(x_desc, y_desc, source_a, source_b), method, 'pending'))
KeyCandidates(as, bs, source_a, source_b, method) ==
    LET pairs == Cross(as, bs)
    IN  [k \in 1..Len(pairs) |->
            <<pairs[k][1][1], pairs[k][2][1],
              Similarity[<<pairs[k][1][2], pairs[k][2][2], source_a, source_b>>],
              method, "pending">>]

\* A matcher without blocking: every sighting grouped of one source is paired
\* with every sighting grouped of the other, whatever their keys are.
OverlapCandidatesAnyKeys(ga, gb, source_a, source_b, method) ==
    LET entries(g) == UNION {Range(g[k]) : k \in DOMAIN g}
        every(g)   == LET ids == SortedSeq({e[1] : e \in entries(g)})
                      IN  [i \in 1..Len(ids) |-> CHOOSE e \in entries(g) : e[1] = ids[i]]
    IN  {<<KeyCandidates(every(ga), every(gb), source_a, source_b, method)>>}

\* The candidates of every overlapping key of two groupings, key by key, for
\* each order the set of overlapping keys can be iterated in.
OverlapCandidates(ga, gb, source_a, source_b, method) ==
    {[i \in 1..Len(o) |-> KeyCandidates(ga[o[i]], gb[o[i]], source_a, source_b, method)] :
        o \in Orders(DOMAIN ga \cap DOMAIN gb)}

\* A sub-phase that collects every key and inserts once: its one call.
OneInsert(ga, gb, source_a, source_b, method) ==
    {<<Concat(kc)>> : kc \in OverlapCandidates(ga, gb, source_a, source_b, method)}

\* The `len(candidates) >= 50000` of the flush loops, scaled to the model.
FLUSH_PAIRS == 1

\* for key in overlap: ...; if len(candidates) >= FLUSH_PAIRS: insert, reset;
\* and the insert of the rest after the loop. The batches of the calls made.
RECURSIVE FlushCalls(_, _)
FlushCalls(kc, candidates) ==
    IF kc = <<>> THEN <<candidates>>
    ELSE LET more == candidates \o Head(kc)
         IN  IF Len(more) >= FLUSH_PAIRS
             THEN <<more>> \o FlushCalls(Tail(kc), <<>>)
             ELSE FlushCalls(Tail(kc), more)

\* A sub-phase with the flush loop.
FlushingInsert(ga, gb, source_a, source_b, method) ==
    {FlushCalls(kc, <<>>) : kc \in OverlapCandidates(ga, gb, source_a, source_b, method)}

\* tier_1a(conn): the batches of its insert_candidates calls, one sequence for
\* each iteration order.
tier_1a(conn) ==
    OneInsert(load_source_sightings(conn, SRC_MUFON, FALSE).groups,
              load_source_sightings(conn, SRC_NUFORC, FALSE).groups,
              SRC_MUFON, SRC_NUFORC, "tier1a_mufon_nuforc")

\* The sub-phases of tier 2 on the groupings loaded: 2a, 2b, 2c (MUFON,
\* NUFORC, then UFOCAT) and 2d (MUFON, NUFORC, UFOCAT), in this order.
Tier2Calls(mufon, nuforc, ufocat, updb_us, geld) ==
    {p2a \o p2b \o p2cm \o p2cn \o p2cu \o p2dm \o p2dn \o p2du :
        p2a  \in OneInsert(mufon, ufocat, SRC_MUFON, SRC_UFOCAT, "tier2a_mufon_ufocat"),
        p2b  \in FlushingInsert(nuforc, ufocat, SRC_NUFORC, SRC_UFOCAT,
                                "tier2b_nuforc_ufocat"),
        p2cm \in OneInsert(updb_us, DropState(mufon), SRC_UPDB, SRC_MUFON,
                           "tier2c_updb_mufon"),
        p2cn \in OneInsert(updb_us, DropState(nuforc), SRC_UPDB, SRC_NUFORC,
                           "tier2c_updb_nuforc"),
        p2cu \in FlushingInsert(updb_us, DropState(ufocat), SRC_UPDB, SRC_UFOCAT,
                                "tier2c_updb_ufocat"),
        p2dm \in OneInsert(geld, mufon, SRC_UFOSEARCH, SRC_MUFON,
                           "tier2d_ufosearch_mufon"),
        p2dn \in OneInsert(geld, nuforc, SRC_UFOSEARCH, SRC_NUFORC,
                           "tier2d_ufosearch_nuforc"),
        p2du \in OneInsert(geld, ufocat, SRC_UFOSEARCH, SRC_UFOCAT,
                           "tier2d_ufosearch_ufocat")}

\* tier_2(conn): the batches of its insert_candidates calls, one sequence for
\* each iteration order.
tier_2(conn) ==
    Tier2Calls(load_source_sightings(conn, SRC_MUFON, FALSE).groups,
               load_source_sightings(conn, SRC_NUFORC, FALSE).groups,
               load_source_sightings(conn, SRC_UFOCAT, TRUE).groups,
               load_source_sightings_city_only(conn, SRC_UPDB, COUNTRY_US).groups,
               UfosearchGroups(conn).groups)

\* HAVING src_cnt >= 2
MIN_DATE_SOURCES == 2

\* HAVING cnt <= 20
MAX_DATE_RECORDS == 20

\* if jac < 0.25: continue
TIER3_JACCARD == <<1, 4>>

\* if score >= 0.5
TIER3_SCORE == <<1, 2>>

\* The `dates_processed % 5000 == 0` of the periodic insert, scaled to the model.
FLUSH_DATES == 1

\* WHERE date_event IS NOT NULL AND LENGTH(date_event) >= 10
Dated(conn) ==
    {id \in DOMAIN conn : /\ conn[id].date_event # None
                          /\ Len(conn[id].date_event) >= DATE_CHARS}

\* GROUP BY d HAVING src_cnt >= 2, without the limit on the records of a date.
TargetDatesUncapped(conn) ==
    {d \in {DateKey(conn, id) : id \in Dated(conn)} :
        Cardinality({conn[id].source_db_id :
                        id \in {x \in Dated(conn) : DateKey(conn, x) = d}})
            >= MIN_DATE_SOURCES}

\* GROUP BY d HAVING src_cnt >= 2 AND cnt <= 20
target_dates(conn) ==
    {d \in {DateKey(conn, id) : id \in Dated(conn)} :
        LET same == {id \in Dated(conn) : DateKey(conn, id) = d}
        IN  /\ Cardinality({conn[id].source_db_id : id \in same}) >= MIN_DATE_SOURCES
            /\ Cardinality(same) <= MAX_DATE_RECORDS}

\* existing_pairs, read from the store when the tier starts
existing_pairs(store) ==
    {<<Min(r.sighting_id_a, r.sighting_id_b), Max(r.sighting_id_a, r.sighting_id_b)>> :
        r \in Rows(store)}

\* by_source[src] of date d: the rows of the source on the date, in row order.
BySource(conn, d, src) ==
    SortedSeq({id \in Dated(conn) : DateKey(conn, id) = d /\ conn[id].source_db_id = src})

\* What tier 3 works out for each pair of rows: the Jaccard of the cleaned
\* descriptions and the score.
Tier3Scored(conn, pairs, src_a, src_b) ==
    [k \in 1..Len(pairs) |->
        [a_id  |-> pairs[k][1],
         b_id  |-> pairs[k][2],
         jac   |-> CleanedJaccard[<<conn[pairs[k][1]].description,
                                    conn[pairs[k][2]].description>>],
         score |-> Similarity[<<conn[pairs[k][1]].description,
                                conn[pairs[k][2]].description, src_a, src_b>>]]]

\* if jac < 0.25: continue; candidates.append(...), without the test of the score.
Tier3CandidatesUnscored(scored) ==
    LET found == SelectSeq(scored, LAMBDA s : ~RatLess(s.jac, TIER3_JACCARD))
    IN  [k \in 1..Len(found) |->
            <<found[k].a_id, found[k].b_id, found[k].score,
              "tier3_desc_fuzzy", "pending">>]

\* if jac < 0.25: continue; if score >= 0.5: candidates.append(...)
Tier3Candidates(scored) ==
    LET found == SelectSeq(scored, LAMBDA s : /\ ~RatLess(s.jac, TIER3_JACCARD)
                                              /\ RatGeq(s.score, TIER3_SCORE))
    IN  [k \in 1..Len(found) |->
            <<found[k].a_id, found[k].b_id, found[k].score,
              "tier3_desc_fuzzy", "pending">>]

\* The pairs of two sources of one date that pass the Jaccard filter and the
\* score threshold, as candidates. (The engine tests existing_pairs first; the
\* three tests are independent of each other, and Tier3Date applies that one.)
Tier3SourcePair(conn, d, src_a, src_b) ==
    Tier3Candidates(
        Tier3Scored(conn, Cross(BySource(conn, d, src_a), BySource(conn, d, src_b)),
                    src_a, src_b))

\* The passing pairs of one date with a source paired with itself too: every
\* pair src_a <= src_b of its sources.
Tier3PassingAnySources(conn, d) ==
    LET source_ids == SortedSeq({conn[id].source_db_id :
                                    id \in {x \in Dated(conn) : DateKey(conn, x) = d}})
        ij == SelectSeq(Cross(source_ids, source_ids), LAMBDA p : p[1] <= p[2])
    IN  Concat([k \in 1..Len(ij) |-> Tier3SourcePair(conn, d, ij[k][1], ij[k][2])])

\* The passing pairs of one date: every pair src_a < src_b of its sources.
Tier3Passing(conn, d) ==
    LET source_ids == SortedSeq({conn[id].source_db_id :
                                    id \in {x \in Dated(conn) : DateKey(conn, x) = d}})
        ij == SelectSeq(Cross(source_ids, source_ids), LAMBDA p : p[1] < p[2])
    IN  Concat([k \in 1..Len(ij) |-> Tier3SourcePair(conn, d, ij[k][1], ij[k][2])])

\* The candidates of one date without the test of existing_pairs.
Tier3DateUnfiltered(passing, existing) == passing

\* A tier 3 that looks for candidates on an empty table only.
Tier3DateOnEmptyTable(passing, existing) ==
    IF existing = {} THEN passing ELSE <<>>

\* The candidates of one date: its passing pairs that are not in existing_pairs.
Tier3Date(passing, existing) ==
    SelectSeq(passing, LAMBDA c : <<Min(c[1], c[2]), Max(c[1], c[2])>> \notin existing)

\* The loop over the dates: after each date, every FLUSH_DATES-th date inserts
\* what was collected if there is any; after the loop the rest, if any.
RECURSIVE Tier3Calls(_, _, _)
Tier3Calls(dc, candidates, dates_processed) ==
    IF dc = <<>> THEN (IF candidates # <<>> THEN <<candidates>> ELSE <<>>)
    ELSE LET more == candidates \o Head(dc)
         IN  IF (dates_processed + 1) % FLUSH_DATES = 0
             THEN (IF more # <<>> THEN <<more>> ELSE <<>>)
                  \o Tier3Calls(Tail(dc), <<>>, dates_processed + 1)
             ELSE Tier3Calls(Tail(dc), more, dates_processed + 1)

\* tier_3(conn) on a store, from the passing pairs of each target date: the
\* batches of its insert_candidates calls, one sequence for each order the
\* dates come in.
tier_3(passing, store) ==
    {Tier3Calls([i \in 1..Len(o) |-> Tier3Date(passing[o[i]], existing_pairs(store))],
                <<>>, 0) :
        o \in Orders(DOMAIN passing)}

(***************************************************************************)
(* Databases                                                               *)
(***************************************************************************)

\* The sightings of a database that are drawn from the catalogue.
NumCore == 3

\* The fillers of a database: none, or as many as bring the date of the
\* fillers to the tier 3 limit when two of the others have it, and past the
\* limit when all have it.
FillCounts == {0, MAX_DATE_RECORDS - NumCore + 1}

\* The database of the catalogue entries `core` and `fill` fillers; ids are
\* the rowids 1, 2, ...
Database(core, fill) ==
    [id \in 1..(NumCore + fill) |->
        IF id <= NumCore THEN Catalogue[core[id]] ELSE Filler]

Databases ==
    {Database(core, fill) :
        core \in {c \in [1..NumCore -> 1..Len(Catalogue)] :
                    \A i \in 1..(NumCore - 1) : c[i] <= c[i + 1]},
        fill \in FillCounts}

\* What each tier works out from the sighting table alone, for every
\* database and for the database without a sighting, worked out once: the
\* calls of tier 1a and of tier 2, and the passing pairs of each target date
\* of tier 3.
Tier1aMatched == [conn \in Databases \cup {<<>>} |-> tier_1a(conn)]

Tier2Matched == [conn \in Databases \cup {<<>>} |-> tier_2(conn)]

Tier3Matched ==
    [conn \in Databases \cup {<<>>} |->
        [d \in target_dates(conn) |-> Tier3Passing(conn, d)]]

\* The calls a run of a tier makes.
Calls(conn, tier, store) ==
    CASE tier = "tier_1a" -> Tier1aMatched[conn]
      [] tier = "tier_2"  -> Tier2Matched[conn]
      [] tier = "tier_3"  -> tier_3(Tier3Matched[conn], store)

\* The batches a run of a tier commits: the calls with a batch to insert (on
\* an empty batch insert_candidates returns before it touches the store).
Plans(conn, tier, store) ==
    {SelectSeq(c, LAMBDA batch : batch # <<>>) : c \in Calls(conn, tier, store)}

\* The table a run leaves that commits the batches of `plan` on `store`.
RECURSIVE RunPlan(_, _)
RunPlan(store, plan) ==
    IF plan = <<>> THEN store
    ELSE RunPlan(insert_candidates(store, Head(plan)).store, Tail(plan))

(***************************************************************************)
(* The engine                                                              *)
(***************************************************************************)

Tiers == {"tier_1a", "tier_2", "tier_3"}

\* history.kind tells what happened last:
\*   "none"     nothing yet, or a reviewer changed the table
\*   "direct"   insert_candidates was called directly with `batch` on the
\*              table `start`
\* or what the runs of history.tier were that followed each other with nothing
\* else changing the table between them:
\*   "fresh"    a first run is going on; it started on the table `start`
\*   "done"     that run completed and left the table `first` (a further run
\*              of the tier may be going on)
\*   "redone"   a further run completed
\*   "aborted"  a run was aborted and left the table `partial`; `start` is
\*              the table the first aborted run started on (a further run of
\*              the tier may be going on)
\*   "resumed"  a run completed after the aborted ones
NoHistory ==
    [tier |-> "none", kind |-> "none", start |-> EmptyBag, first |-> EmptyBag,
     partial |-> EmptyBag, batch |-> <<>>]

\* The candidate tuples a direct caller of insert_candidates passes, as the
\* tests do: a pair, the same pair the other way round with another score,
\* and a self-pair.
DirectCandidates ==
    {<<1, 2, <<4, 5>>, "manual", "pending">>,
     <<2, 1, <<9, 10>>, "manual", "pending">>,
     <<1, 1, <<4, 5>>, "manual", "pending">>}

MaxBatch == 1

DirectBatches ==
    UNION {[1..n -> DirectCandidates] : n \in 0..MaxBatch}

\* The rows a reviewer settles in one behaviour, and what a reviewer sets the
\* status to (the engine reads no status, so 'rejected' would add nothing).
MaxReviewed == 1

ReviewStatuses == {"confirmed"}

\* No function has been called alone.
NoCall == [fn |-> "none", args |-> <<>>, value |-> <<>>]

\* No process runs main().
NoMain == <<>>

Init ==
    /\ sighting \in Databases
    /\ duplicate_candidate = EmptyBag
    /\ pc = "idle"
    /\ pending = <<>>
    /\ rowcount = 0
    /\ history = NoHistory
    /\ returned = NoCall
    /\ main = NoMain

\* main() enters a tier: the tier reads the tables and works out the batches
\* it will insert.
Start(t) ==
    /\ pc = "idle"
    /\ pc' = t
    /\ pending' \in Plans(sighting, t, duplicate_candidate)
    /\ history' = IF history.tier = t /\ history.kind \in {"done", "redone", "aborted"}
                  THEN history
                  ELSE [NoHistory EXCEPT !.tier = t, !.kind = "fresh",
                                         !.start = duplicate_candidate]
    /\ UNCHANGED <<sighting, duplicate_candidate, rowcount, returned, main>>

\* The running tier calls insert_candidates on its next batch; the call
\* commits.
Step ==
    /\ pc \in Tiers
    /\ pending # <<>>
    /\ LET done == insert_candidates(duplicate_candidate, Head(pending))
       IN  /\ duplicate_candidate' = done.store
           /\ rowcount' = done.rowcount
    /\ pending' = Tail(pending)
    /\ UNCHANGED <<sighting, pc, history, returned, main>>

\* The running tier returns.
Finish ==
    /\ pc \in Tiers
    /\ pending = <<>>
    /\ pc' = "idle"
    /\ history' = CASE history.kind \in {"done", "redone"} ->
                         [history EXCEPT !.kind = "redone"]
                    [] history.kind = "aborted" ->
                         [history EXCEPT !.kind = "resumed"]
                    [] history.kind = "fresh" ->
                         [history EXCEPT !.kind = "done", !.first = duplicate_candidate]
                    [] OTHER -> history
    /\ UNCHANGED <<sighting, duplicate_candidate, pending, rowcount,
                   returned, main>>

\* The process is stopped while a tier runs: what was committed stays, the
\* batch being collected is lost.
Abort ==
    /\ pc \in Tiers
    /\ pc' = "idle"
    /\ pending' = <<>>
    /\ history' = CASE history.kind \in {"done", "redone"} ->
                         [history EXCEPT !.kind = "aborted", !.start = history.first,
                                         !.partial = duplicate_candidate]
                    [] history.kind \in {"fresh", "aborted"} ->
                         [history EXCEPT !.kind = "aborted",
                                         !.partial = duplicate_candidate]
                    [] OTHER -> history
    /\ UNCHANGED <<sighting, duplicate_candidate, rowcount, returned, main>>

\* insert_candidates(conn, candidates) called directly.
InsertCandidates(candidates) ==
    /\ pc = "idle"
    /\ LET done == insert_candidates(duplicate_candidate, candidates)
       IN  /\ duplicate_candidate' = done.store
           /\ rowcount' = done.rowcount
    /\ history' = [NoHistory EXCEPT !.kind = "direct", !.start = duplicate_candidate,
                                    !.batch = candidates]
    /\ UNCHANGED <<sighting, pc, pending, returned, main>>

\* A reviewer outside the engine settles a pending row.
Review(row, status) ==
    /\ row \in Rows(duplicate_candidate)
    /\ row.status = "pending"
    /\ Cardinality({r \in Rows(duplicate_candidate) : r.status # "pending"}) < MaxReviewed
    /\ duplicate_candidate' =
           (duplicate_candidate (-) SetToBag({row}))
               (+) SetToBag({[row EXCEPT !.status = status]})
    /\ history' = NoHistory
    /\ UNCHANGED <<sighting, pc, pending, rowcount, returned, main>>

Next ==
    \/ \E t \in Tiers : Start(t)
    \/ Step
    \/ Finish
    \/ Abort
    \/ \E candidates \in DirectBatches : InsertCandidates(candidates)
    \/ \E row \in Rows(duplicate_candidate), status \in ReviewStatuses :
          Review(row, status)

Spec == Init /\ [][Next]_vars

(***************************************************************************)
(* The functions called alone, as the tests call them                      *)
(***************************************************************************)

\* A city that is given and normalizes to nothing.
CITY_UNKNOWN == <<"?">>

\* A date_event that is the empty string.
DATE_EMPTY == <<>>

\* The records the databases the functions are called on are made of, in
\* the groups they are inserted in: three times a MUFON and a UFOCAT record
\* that share a key, each time another key, a NUFORC record that shares the
\* first key, and MUFON records with a city that normalizes to nothing, with
\* an empty date and with no date.
Samples ==
    << <<Catalogue[2], Catalogue[4]>>,
       <<Catalogue[8],
         Sighting(SRC_UFOCAT, DATE_YEAR,
                  Location(CITY_TUCSON, None, STATE_AZ, None), DESC_ORB_SHORT)>>,
       <<Catalogue[10],
         Sighting(SRC_UFOCAT, DATE_DAY,
                  Location(CITY_PHOENIX_UPPER, None, STATE_NM, None), DESC_ORB_SHORT)>>,
       <<Catalogue[3]>>,
       <<Sighting(SRC_MUFON, DATE_DAY,
                  Location(CITY_UNKNOWN, CITY_UNKNOWN, STATE_AZ, COUNTRY_US), DESC_ORB)>>,
       <<Sighting(SRC_MUFON, DATE_EMPTY,
                  Location(CITY_PHOENIX, CITY_PHOENIX, STATE_AZ, COUNTRY_US), DESC_ORB)>>,
       <<Sighting(SRC_MUFON, None,
                  Location(CITY_PHOENIX, CITY_PHOENIX, STATE_AZ, COUNTRY_US), DESC_ORB)>> >>

\* The databases of some of the groups, in their order; ids are the rowids
\* 1, 2, ...
SampleDatabases ==
    {Concat([i \in 1..Cardinality(picked) |-> Samples[SortedSeq(picked)[i]]]) :
        picked \in SUBSET (1..Len(Samples))}

\* A load as the tiers and the tests call it: the function, the source and
\* use_raw_text_as_city or country_filter.
LoadCalls ==
    ({"load_source_sightings"} \X {SRC_MUFON, SRC_UFOCAT} \X BOOLEAN)
        \cup ({"load_source_sightings_city_only"} \X {SRC_MUFON, SRC_UFOCAT}
                  \X {None, COUNTRY_US})

\* What each load returns and what tier 1a and tier 2 work out on every
\* database of the samples, tabulated (the merge with the empty function
\* leaves the function as it is and has TLC work it out once).
Loaded ==
    [a \in SampleDatabases \X LoadCalls |->
        IF a[2][1] = "load_source_sightings"
        THEN load_source_sightings(a[1], a[2][2], a[2][3])
        ELSE load_source_sightings_city_only(a[1], a[2][2], a[2][3])] @@ <<>>

TierCalled ==
    [a \in SampleDatabases \X {"tier_1a", "tier_2"} |->
        IF a[2] = "tier_1a" THEN tier_1a(a[1]) ELSE tier_2(a[1])] @@ <<>>

\* The batches handed to insert_candidates alone: up to MaxCallBatch tuples,
\* so that a batch can hold one pair twice.
MaxCallBatch == 2

InitCalls ==
    /\ sighting \in SampleDatabases
    /\ duplicate_candidate = EmptyBag
    /\ pc = "idle"
    /\ pending = <<>>
    /\ rowcount = 0
    /\ history = NoHistory
    /\ returned = NoCall
    /\ main = NoMain

\* groups, count = load_source_sightings(conn, ...) or
\* load_source_sightings_city_only(conn, ...)
CallLoad(c) ==
    /\ returned' = [fn |-> c[1], args |-> <<c[2], c[3]>>, value |-> Loaded[<<sighting, c>>]]
    /\ UNCHANGED <<sighting, duplicate_candidate, pc, pending, rowcount, history, main>>

\* tier_1a(conn) or tier_2(conn), run from its first line to its return: the
\* value kept is the candidate list of each insert_candidates call.
CallTier(t) ==
    \E calls \in TierCalled[<<sighting, t>>] :
        /\ duplicate_candidate' =
               RunPlan(duplicate_candidate, SelectSeq(calls, LAMBDA batch : batch # <<>>))
        /\ returned' = [fn |-> t, args |-> <<>>, value |-> calls]
        /\ UNCHANGED <<sighting, pc, pending, rowcount, history, main>>

\* n = insert_candidates(conn, candidates) on sightings of the database
CallInsert(candidates) ==
    /\ \A k \in 1..Len(candidates) :
          candidates[k][1] \in DOMAIN sighting /\ candidates[k][2] \in DOMAIN sighting
    /\ LET done == insert_candidates(duplicate_candidate, candidates)
       IN  /\ duplicate_candidate' = done.store
           /\ returned' = [fn |-> "insert_candidates", args |-> <<candidates>>,
                           value |-> done.rowcount]
    /\ UNCHANGED <<sighting, pc, pending, rowcount, history, main>>

NextCalls ==
    \/ \E c \in LoadCalls : CallLoad(c)
    \/ \E t \in {"tier_1a", "tier_2"} : CallTier(t)
    \/ \E n \in 0..MaxCallBatch : \E candidates \in [1..n -> DirectCandidates] :
          CallInsert(candidates)

SpecCalls == InitCalls /\ [][NextCalls]_vars

(***************************************************************************)
(* main(), run by processes side by side on one database file              *)
(***************************************************************************)

\* The processes that run main().
NumProcesses == 3

\* The steps of main() in the order of its `if` statements, each with the
\* values of --tier it is run for.
MainSteps ==
    << <<"create_indexes", {"1", "2", "3", "all"}>>,
       <<"tier_1a", {"1", "all"}>>,
       <<"tier_2", {"2", "all"}>>,
       <<"tier_3", {"3", "all"}>>,
       <<"verify", {"verify", "all"}>> >>

\* A main() without its `if` statements: every step is run.
NextStepEvery(tier, k) == k + 1

\* The step main() comes to after step k (0: after the connection is opened):
\* the next one whose `if` holds, or conn.close(), which is step
\* Len(MainSteps) + 1.
NextStep(tier, k) ==
    LET later == {j \in (k + 1)..Len(MainSteps) : tier \in MainSteps[j][2]}
    IN  IF later = {} THEN Len(MainSteps) + 1
        ELSE CHOOSE j \in later : \A i \in later : j <= i

\* A process started on the command line `argv` with --tier `tier` is at step
\* `at` of main() (0: not started, Len(MainSteps) + 2: returned) and has
\* completed the steps `ran`; `raised` tells that an exception has ended it
\* at step `at`. Within a tier, `calls` are the batches
\* of the insert_candidates calls to come, the first of them being executed,
\* `todo` the tuples executemany has still to insert, `tx` the rows of the
\* open transaction and `holds` tells that the process holds the write lock
\* of the database file. The databases are ones whose indexes exist; one of
\* them has no sighting.
InitMain ==
    /\ sighting \in {Database(<<1, 2, 3>>, 0), Database(<<2, 4, 5>>, 0),
                     Database(<<1, 2, 10>>, 0), <<>>}
    /\ duplicate_candidate = EmptyBag
    /\ pc = "idle"
    /\ pending = <<>>
    /\ rowcount = 0
    /\ history = NoHistory
    /\ returned = NoCall
    /\ main = [p \in 1..NumProcesses |->
                  [argv |-> <<>>, tier |-> "none", at |-> 0, ran |-> <<>>,
                   raised |-> FALSE,
                   entered |-> FALSE, calls |-> <<>>, todo |-> <<>>, tx |-> EmptyBag,
                   holds |-> FALSE]]

\* args = parser.parse_args() on the command line argv, which has no --tier
\* or one of the choices; the connection is opened.
MainStart(p, argv) ==
    /\ main[p].at = 0
    /\ LET tier == IF argv = <<>> THEN "all" ELSE argv[2]
       IN  main' = [main EXCEPT ![p].argv = argv, ![p].tier = tier,
                                ![p].at = NextStep(tier, 0)]
    /\ UNCHANGED <<sighting, duplicate_candidate, pc, pending, rowcount, history, returned>>

\* create_indexes(conn): CREATE INDEX IF NOT EXISTS on indexes that exist.
MainCreateIndexes(p) ==
    /\ ~main[p].raised
    /\ main[p].at \in 1..Len(MainSteps)
    /\ MainSteps[main[p].at][1] = "create_indexes"
    /\ main' = [main EXCEPT ![p].ran = Append(@, "create_indexes"),
                            ![p].at = NextStep(main[p].tier, main[p].at)]
    /\ UNCHANGED <<sighting, duplicate_candidate, pc, pending, rowcount, history, returned>>

\* A tier is entered: it reads the tables as they are committed and works out
\* the batches it will insert; insert_candidates normalizes the first.
MainEnterTier(p) ==
    /\ ~main[p].raised
    /\ main[p].at \in 1..Len(MainSteps)
    /\ MainSteps[main[p].at][1] \in Tiers
    /\ ~main[p].entered
    /\ \E plan \in Plans(sighting, MainSteps[main[p].at][1], duplicate_candidate) :
          main' = [main EXCEPT ![p].entered = TRUE, ![p].calls = plan,
                               ![p].todo = IF plan = <<>> THEN <<>>
                                           ELSE Normalized(Head(plan))]
    /\ UNCHANGED <<sighting, duplicate_candidate, pc, pending, rowcount, history, returned>>

\* cur.executemany: one INSERT OR IGNORE. The statement needs the write lock
\* of the database file, which the transaction keeps until it commits; the
\* process sees the committed rows and those of its own transaction.
MainInsertRow(p) ==
    /\ ~main[p].raised
    /\ main[p].todo # <<>>
    /\ \A q \in DOMAIN main : q # p => ~main[q].holds
    /\ main' = [main EXCEPT
                   ![p].holds = TRUE,
                   ![p].todo = Tail(@),
                   ![p].tx = IF Conflicts(duplicate_candidate (+) main[p].tx,
                                          Head(main[p].todo))
                             THEN @ ELSE @ (+) SetToBag({Row(Head(main[p].todo))})]
    /\ UNCHANGED <<sighting, duplicate_candidate, pc, pending, rowcount, history, returned>>

\* The statement has waited for the write lock for the timeout of the
\* connection (sqlite3.connect: 5 seconds) while another process held it:
\* sqlite3.OperationalError('database is locked'), which nothing catches.
MainLocked(p) ==
    /\ ~main[p].raised
    /\ main[p].todo # <<>>
    /\ \E q \in DOMAIN main : q # p /\ main[q].holds
    /\ main' = [main EXCEPT ![p].raised = TRUE]
    /\ UNCHANGED <<sighting, duplicate_candidate, pc, pending, rowcount, history, returned>>

\* A commit that also deletes the sighting of the highest id.
MainCommitDeletingSighting(p) ==
    /\ ~main[p].raised
    /\ main[p].calls # <<>>
    /\ main[p].todo = <<>>
    /\ duplicate_candidate' = duplicate_candidate (+) main[p].tx
    /\ sighting' = SubSeq(sighting, 1, Len(sighting) - 1)
    /\ main' = [main EXCEPT ![p].holds = FALSE, ![p].tx = EmptyBag, ![p].calls = <<>>]
    /\ UNCHANGED <<pc, pending, rowcount, history, returned>>

\* conn.commit() and the return of insert_candidates; the tier goes on to its
\* next call.
MainCommit(p) ==
    /\ ~main[p].raised
    /\ main[p].calls # <<>>
    /\ main[p].todo = <<>>
    /\ duplicate_candidate' = duplicate_candidate (+) main[p].tx
    /\ main' = [main EXCEPT
                   ![p].holds = FALSE,
                   ![p].tx = EmptyBag,
                   ![p].calls = Tail(@),
                   ![p].todo = IF Tail(main[p].calls) = <<>> THEN <<>>
                               ELSE Normalized(Head(Tail(main[p].calls)))]
    /\ UNCHANGED <<sighting, pc, pending, rowcount, history, returned>>

\* The tier returns.
MainReturn(p) ==
    /\ ~main[p].raised
    /\ main[p].entered
    /\ main[p].calls = <<>>
    /\ main' = [main EXCEPT ![p].entered = FALSE,
                            ![p].ran = Append(@, MainSteps[main[p].at][1]),
                            ![p].at = NextStep(main[p].tier, main[p].at)]
    /\ UNCHANGED <<sighting, duplicate_candidate, pc, pending, rowcount, history, returned>>

\* verify(conn): SELECT statements and prints. The line of a method formats
\* its average score with '>6.3f', which raises TypeError on the None of a
\* method whose scores are all NULL, and the last line divides by the
\* number of sightings, which raises ZeroDivisionError when there is none.
MainVerify(p) ==
    /\ ~main[p].raised
    /\ main[p].at \in 1..Len(MainSteps)
    /\ MainSteps[main[p].at][1] = "verify"
    /\ main' = IF \/ \E r \in Rows(duplicate_candidate) :
                        \A q \in Rows(duplicate_candidate) :
                            q.match_method = r.match_method => q.similarity_score = None
                  \/ Len(sighting) = 0
               THEN [main EXCEPT ![p].raised = TRUE]
               ELSE [main EXCEPT ![p].ran = Append(@, "verify"),
                                 ![p].at = NextStep(main[p].tier, main[p].at)]
    /\ UNCHANGED <<sighting, duplicate_candidate, pc, pending, rowcount, history, returned>>

\* conn.close(), and main() returns.
MainClose(p) ==
    /\ ~main[p].raised
    /\ main[p].at = Len(MainSteps) + 1
    /\ main' = [main EXCEPT ![p].at = Len(MainSteps) + 2]
    /\ UNCHANGED <<sighting, duplicate_candidate, pc, pending, rowcount, history, returned>>

NextMain ==
    \E p \in 1..NumProcesses :
        \/ \E argv \in {<<>>} \cup {<<"--tier", c>> : c \in {"1", "2", "3", "all", "verify"}} :
              MainStart(p, argv)
        \/ MainCreateIndexes(p)
        \/ MainEnterTier(p)
        \/ MainInsertRow(p)
        \/ MainLocked(p)
        \/ MainCommit(p)
        \/ MainReturn(p)
        \/ MainVerify(p)
        \/ MainClose(p)

SpecMain == InitMain /\ [][NextMain]_vars

(***************************************************************************)
(* The text functions called alone, as the tests call them                 *)
(***************************************************************************)

\* normalize_city("Springfield (IL)?") of the tests
CITY_SPRINGFIELD_IL ==
    <<"S","p","r","i","n","g","f","i","e","l","d"," ","(","I","L",")","?">>

\* The longest city text written character by character.
MaxCityLen == 4

\* The city texts normalize_city is called on: None, the cities of the tests,
\* and every text of up to MaxCityLen characters among a letter, a space,
\* the parentheses of a qualifier and a trailing punctuation mark.
CityTexts ==
    {None, CITY_PHOENIX, CITY_PHOENIX_NORTH, CITY_SPRINGFIELD_IL}
        \cup UNION {[1..n -> {"a", " ", "(", ")", "?"}] : n \in 0..MaxCityLen}

InitText ==
    /\ sighting = <<>>
    /\ duplicate_candidate = EmptyBag
    /\ pc = "idle"
    /\ pending = <<>>
    /\ rowcount = 0
    /\ history = NoHistory
    /\ returned = NoCall
    /\ main = NoMain

\* c = normalize_city(city_str). The text functions keep nothing from one
\* call to the next, so each call is made in the state no function has been
\* called in.
CallNormalizeCity(city_str) ==
    /\ returned = NoCall
    /\ returned' = [fn |-> "normalize_city", args |-> <<city_str>>,
                    value |-> normalize_city(city_str)]
    /\ UNCHANGED <<sighting, duplicate_candidate, pc, pending, rowcount, history, main>>

\* The longest description written character by character.
MaxDescLen == 2

\* The descriptions the functions are called on: None, descriptions of the
\* catalogue, a NUFORC prefix with nothing after it, a NUFORC prefix and a
\* MUFON template that are followed by another one, twenty punctuation marks
\* and twenty letters, alone and as the start of a longer text, two short
\* texts, and every text of up to MaxDescLen characters among a letter, a
\* space and a punctuation mark.
DescTexts ==
    {None, DESC_ORB, DESC_ORB_SHORT, DESC_ORB_NUFORC,
     NUFORC_PREFIX \o <<" ", "1">>,
     NUFORC_PREFIX \o <<" ", "1", " ">> \o NUFORC_PREFIX \o <<" ", "2", " ", "x">>,
     INVESTIGATOR \o <<" ", "N", "o", "t", " ">> \o MUFON_MARKER \o <<" ">>
         \o INVESTIGATOR \o <<" ", "N", "o", "t", " ", "x">>,
     [i \in 1..STARTS_WITH_MIN |-> "!"],
     [i \in 1..STARTS_WITH_MIN |-> "!"] \o <<" ", "a">>,
     [i \in 1..STARTS_WITH_MIN |-> "a"],
     [i \in 1..STARTS_WITH_MIN |-> "a"] \o <<"b">>,
     <<" ", "a">>,
     <<"a", " ", "b", "a">>}
        \cup UNION {[1..n -> {"a", " ", "!"}] : n \in 0..MaxDescLen}

\* desc = strip_nuforc_prefix(desc) or desc = strip_mufon_boilerplate(desc)
CallStrip(fn, desc) ==
    /\ returned = NoCall
    /\ returned' = [fn |-> fn, args |-> <<desc>>,
                    value |-> IF fn = "strip_nuforc_prefix"
                              THEN strip_nuforc_prefix(desc)
                              ELSE strip_mufon_boilerplate(desc)]
    /\ UNCHANGED <<sighting, duplicate_candidate, pc, pending, rowcount, history, main>>

\* score = compute_similarity(desc_a, desc_b, source_a, source_b); a call
\* without source ids strips nothing, as one with the ids of UFOCAT.
CallComputeSimilarity(desc_a, desc_b, source_a, source_b) ==
    /\ returned = NoCall
    /\ returned' = [fn |-> "compute_similarity",
                    args |-> <<desc_a, desc_b, source_a, source_b>>,
                    value |-> compute_similarity(desc_a, desc_b, source_a, source_b)]
    /\ UNCHANGED <<sighting, duplicate_candidate, pc, pending, rowcount, history, main>>

\* city, state = parse_ufosearch_city_state(raw_text) on a raw_text that is
\* a city text, a comma and a state.
CallParseUfosearch(city_str, state) ==
    /\ returned = NoCall
    /\ returned' = [fn |-> "parse_ufosearch_city_state",
                    args |-> <<city_str \o <<",", " ">> \o state>>,
                    value |-> parse_ufosearch_city_state(
                                  city_str \o <<",", " ">> \o state)]
    /\ UNCHANGED <<sighting, duplicate_candidate, pc, pending, rowcount, history, main>>

NextText ==
    \/ \E city_str \in CityTexts : CallNormalizeCity(city_str)
    \/ \E fn \in {"strip_nuforc_prefix", "strip_mufon_boilerplate"} :
          \E desc \in DescTexts : CallStrip(fn, desc)
    \/ \E desc_a, desc_b \in DescTexts :
          \E source_a, source_b \in {SRC_MUFON, SRC_NUFORC, SRC_UFOCAT} :
              CallComputeSimilarity(desc_a, desc_b, source_a, source_b)
    \/ \E city_str \in CityTexts \ {None} : \E state \in {STATE_AZ, STATE_AZ_LOWER} :
          CallParseUfosearch(city_str, state)

SpecText == InitText /\ [][NextText]_vars

(***************************************************************************)
(* Properties of the candidate store                                       *)
(***************************************************************************)

\* The rows of the unordered pair {a, b}.
PairRows(store, a, b) ==
    {r \in Rows(store) : {r.sighting_id_a, r.sighting_id_b} = {a, b}}

\* C1: whatever insert_candidates calls and tier runs came before, the table
\* holds at most one row for each unordered pair of sightings: no row is there
\* twice and no other row joins the two sightings of a row, in either order.
C1_OneRowPerPair ==
    \A r \in Rows(duplicate_candidate) :
        /\ CopiesIn(r, duplicate_candidate) = 1
        /\ PairRows(duplicate_candidate, r.sighting_id_a, r.sighting_id_b) = {r}

\* insert_candidates was called with (2, 1) on a table that held the row of
\* (1, 2) with another score, and nothing else: the table still holds exactly
\* that row.
C1_InsertedBothWays ==
    /\ history.kind = "direct"
    /\ history.start = SetToBag({Row(<<1, 2, <<4, 5>>, "manual", "pending">>)})
    /\ history.batch = << <<2, 1, <<9, 10>>, "manual", "pending">> >>
    /\ duplicate_candidate = history.start

\* A step that is an insert_candidates call: a batch of the running tier, or a
\* direct call.
InsertStep == Step \/ (history'.kind = "direct" /\ InsertCandidates(history'.batch))

\* C2: every row has sighting_id_a < sighting_id_b strictly, and every
\* insert_candidates call returns the number of rows it added: a self-pair of
\* the batch is dropped, so it adds no row and is not counted.
C2_CanonicalOrder ==
    /\ [](\A r \in Rows(duplicate_candidate) : r.sighting_id_a < r.sighting_id_b)
    /\ [][InsertStep =>
            rowcount' = BagCardinality(duplicate_candidate')
                            - BagCardinality(duplicate_candidate)]_vars

\* insert_candidates was called with a self-pair on a table that held the row
\* the candidate (2, 1) had been stored as: it returned 0 and the table is as
\* it was.
C2_SelfPairDropped ==
    /\ history.kind = "direct"
    /\ history.batch = << <<1, 1, <<4, 5>>, "manual", "pending">> >>
    /\ history.start = SetToBag({Row(<<1, 2, <<9, 10>>, "manual", "pending">>)})
    /\ rowcount = 0
    /\ duplicate_candidate = history.start

\* A step of the reviewer, who is not the engine.
ReviewStep ==
    \E row \in Rows(duplicate_candidate), status \in ReviewStatuses : Review(row, status)

\* C3: the engine never updates or deletes a row: over every step that is not
\* the reviewer's (an insert_candidates call, a batch of a tier, the start, end
\* or abort of a run) each row there before is there after with the same
\* score, method and status.
C3_RowsKept ==
    [][(duplicate_candidate \sqsubseteq duplicate_candidate') \/ ReviewStep]_vars

\* A row a tier made and the reviewer confirmed was proposed again by a direct
\* call with another score and another method: the call returned 0 and the row
\* is as it was.
C3_ConfirmedRowKept ==
    /\ history.kind = "direct"
    /\ rowcount = 0
    /\ duplicate_candidate = history.start
    /\ \E r \in Rows(duplicate_candidate) :
          /\ r.status = "confirmed"
          /\ r.match_method # "manual"
          /\ \E i \in 1..Len(history.batch) :
                /\ {history.batch[i][1], history.batch[i][2]}
                       = {r.sighting_id_a, r.sighting_id_b}
                /\ history.batch[i][3] # r.similarity_score

\* C4: each tier is idempotent: once a run of a tier has completed, the runs of
\* the same tier that follow it immediately leave the table, at every batch
\* and at their end, exactly as the first run left it.
C4_TierIdempotent ==
    history.kind \in {"done", "redone"} => duplicate_candidate = history.first

\* Tier 3 ran and added rows, and a second run of it has completed.
C4_Tier3RanTwice ==
    /\ pc = "idle"
    /\ history.kind = "redone"
    /\ history.tier = "tier_3"
    /\ history.first # history.start

\* The match_method of each tier and sub-phase.
TierMethods ==
    {"tier1a_mufon_nuforc", "tier2a_mufon_ufocat", "tier2b_nuforc_ufocat",
     "tier2c_updb_mufon", "tier2c_updb_nuforc", "tier2c_updb_ufocat",
     "tier2d_ufosearch_mufon", "tier2d_ufosearch_nuforc", "tier2d_ufosearch_ufocat",
     "tier3_desc_fuzzy"}

\* The columns of duplicate_candidate the engine writes.
Columns == {"sighting_id_a", "sighting_id_b", "similarity_score", "match_method", "status"}

\* A table of complete, canonical, unique rows.
WellFormed(store) ==
    \A r \in Rows(store) :
        /\ DOMAIN r = Columns
        /\ r.sighting_id_a \in DOMAIN sighting
        /\ r.sighting_id_b \in DOMAIN sighting
        /\ r.sighting_id_a < r.sighting_id_b
        /\ RatGeq(r.similarity_score, Zero) /\ RatGeq(<<1, 1>>, r.similarity_score)
        /\ r.match_method \in TierMethods \cup {"manual"}
        /\ r.status \in {"pending", "confirmed", "rejected"}
        /\ CopiesIn(r, store) = 1
        /\ PairRows(store, r.sighting_id_a, r.sighting_id_b) = {r}

\* C5: a run aborted after any number of committed batches leaves only
\* complete, canonical, unique rows, and when the same tier is then run again
\* to completion the table is the one an uninterrupted run on the table the
\* aborted run started on leaves, whatever order that run iterates in.
C5_AbortAndRerun ==
    /\ history.kind = "aborted" => WellFormed(duplicate_candidate)
    /\ history.kind = "resumed" =>
          \A plan \in Plans(sighting, history.tier, history.start) :
              duplicate_candidate = RunPlan(history.start, plan)

\* A run was aborted after it had committed some of its batches and before it
\* had committed all, and the tier was run again to completion.
C5_ResumedAfterPartialRun ==
    /\ pc = "idle"
    /\ history.kind = "resumed"
    /\ history.partial # history.start
    /\ history.partial # duplicate_candidate

(***************************************************************************)
(* Properties of the tiers                                                 *)
(***************************************************************************)

\* A run of tier t has completed, and since its start nothing but runs of t
\* has changed the table: history.start is the table the runs started on.
AfterRun(t) ==
    pc = "idle" /\ history.tier = t /\ history.kind \in {"done", "redone", "resumed"}

\* The rows the completed runs created.
Created == Rows(duplicate_candidate) \ Rows(history.start)

\* A sighting of source src with a non-null date and a location.
Located(id, src) ==
    /\ sighting[id].source_db_id = src
    /\ sighting[id].date_event # None
    /\ sighting[id].loc.id # NO_LOCATION

\* (first ten characters of the date, normalized city, normalized state) of a
\* sighting, the city being the column `city` of its location.
CityKey(id) ==
    <<Take(sighting[id].date_event, 10), normalize_city(sighting[id].loc.city),
      StateNorm(sighting[id].loc.state)>>

\* C6: after tier_1a completes, every MUFON sighting m and NUFORC sighting n
\* with a non-null date, a location with a non-empty normalized city, and the
\* same (first ten characters of the date, normalized city, normalized state)
\* have a row, whatever their similarity score is; a row the run created has
\* the method 'tier1a_mufon_nuforc' and the status 'pending'.
C6_Tier1aComplete ==
    AfterRun("tier_1a") =>
        \A m, n \in DOMAIN sighting :
            ( /\ Located(m, 1) /\ Located(n, 2)
              /\ CityKey(m)[2] # <<>>
              /\ CityKey(m) = CityKey(n) )
            => \E r \in PairRows(duplicate_candidate, m, n) :
                  r \in Created => /\ r.match_method = "tier1a_mufon_nuforc"
                                   /\ r.status = "pending"

\* A run of tier_1a has created the row of a MUFON and a NUFORC sighting whose
\* similarity score is 0.0.
C6_ZeroScorePairInserted ==
    /\ AfterRun("tier_1a")
    /\ \E r \in Created :
          /\ r.similarity_score = Zero
          /\ r.match_method = "tier1a_mufon_nuforc"
          /\ r.status = "pending"
          /\ {sighting[r.sighting_id_a].source_db_id,
              sighting[r.sighting_id_b].source_db_id} = {1, 2}

\* The blocking key tier 2 takes a sighting at: (date, city, state), the city
\* being the raw_text of a UFOCAT location, the city parsed from the raw_text
\* of a UFO-search location, and the column `city` of any other.
Tier2Key(id) ==
    CASE sighting[id].source_db_id = 3 -> FullKey(sighting, id, TRUE)
      [] sighting[id].source_db_id = 5 -> UfosearchKey(sighting, id)
      [] OTHER -> FullKey(sighting, id, FALSE)

\* A sighting tier 2 can block: it has a date, a location and a city; a UPDB
\* sighting is one of the country 'US'.
Tier2Blocked(id) ==
    /\ sighting[id].date_event # None
    /\ sighting[id].loc.id # NO_LOCATION
    /\ Tier2Key(id)[1] # <<>>
    /\ Tier2Key(id)[2] # <<>>
    /\ sighting[id].source_db_id = 4 =>
          /\ sighting[id].loc.city # None
          /\ sighting[id].loc.country = COUNTRY_US

\* Two sightings of two sources share the applicable blocking key: date and
\* city when one of them is of UPDB, the full key otherwise.
ShareTier2Key(x, y) ==
    /\ Tier2Blocked(x) /\ Tier2Blocked(y)
    /\ Tier2Key(x)[1] = Tier2Key(y)[1]
    /\ Tier2Key(x)[2] = Tier2Key(y)[2]
    /\ 4 \in {sighting[x].source_db_id, sighting[y].source_db_id}
          \/ Tier2Key(x)[3] = Tier2Key(y)[3]

\* After tier_2 completes, the sightings of the source pairs in `pairs` that
\* share the applicable blocking key have a row.
Tier2Matches(pairs) ==
    AfterRun("tier_2") =>
        \A x, y \in DOMAIN sighting :
            ( /\ {sighting[x].source_db_id, sighting[y].source_db_id} \in pairs
              /\ ShareTier2Key(x, y) )
            => PairRows(duplicate_candidate, x, y) # {}

\* The unordered pairs of two of the five sources.
SourcePairs == {{a, b} : a, b \in 1..5} \ {{a} : a \in 1..5}

\* C7: tier 2 matches each of the nine unordered source pairs other than
\* MUFON-NUFORC: two sightings of such a pair of sources that share the
\* applicable blocking key (the full key, or date and city when one of them is
\* of UPDB) have a row after tier_2 completes.
C7_Tier2NinePairs == Tier2Matches(SourcePairs \ {{1, 2}})

\* What tier_2 does match: the eight source pairs its sub-phases 2a to 2d
\* take, which leave UPDB and UFO-search unpaired.
Tier2EightPairs == Tier2Matches(SourcePairs \ {{1, 2}, {4, 5}})

\* C8: no row a tier made joins two sightings of the same source database,
\* whatever their dates, cities, states and descriptions are.
C8_CrossSourceOnly ==
    \A r \in Rows(duplicate_candidate) :
        r.match_method \in TierMethods =>
            sighting[r.sighting_id_a].source_db_id
                # sighting[r.sighting_id_b].source_db_id

\* A run of tier_3 has created rows on a database with two sightings of the
\* same source that have the same date, city and state and the same
\* description, and no row joins the two.
C8_SameSourceTwinsUnmatched ==
    /\ AfterRun("tier_3")
    /\ \E r \in Created : r.match_method = "tier3_desc_fuzzy"
    /\ \E i, j \in DOMAIN sighting :
          /\ i < j
          /\ sighting[i] = sighting[j]
          /\ Tier2Blocked(i)
          /\ ~Falsy(sighting[i].description)
          /\ PairRows(duplicate_candidate, i, j) = {}
          /\ \E r \in Created : r.sighting_id_a = i \/ r.sighting_id_b = i

\* The sightings whose date has the ten characters d.
OnDate(d) ==
    {id \in DOMAIN sighting : /\ sighting[id].date_event # None
                              /\ Len(sighting[id].date_event) >= 10
                              /\ Take(sighting[id].date_event, 10) = d}

\* A date tier 3 takes: sightings of at least two sources and at most twenty
\* sightings have it.
Qualifies(d) ==
    /\ Cardinality({sighting[id].source_db_id : id \in OnDate(d)}) >= 2
    /\ Cardinality(OnDate(d)) <= 20

\* C9: a row of tier 3 joins two sightings of one ten-character date that
\* qualifies: both have a date of at least ten characters, and the date has
\* sightings of at least two sources and at most twenty sightings. A date with
\* more sightings, a date of one source and a shorter date yield no row.
C9_Tier3QualifyingDates ==
    \A r \in Rows(duplicate_candidate) :
        r.match_method = "tier3_desc_fuzzy" =>
            /\ r.sighting_id_a \in OnDate(Take(sighting[r.sighting_id_a].date_event, 10))
            /\ r.sighting_id_b \in OnDate(Take(sighting[r.sighting_id_a].date_event, 10))
            /\ Qualifies(Take(sighting[r.sighting_id_a].date_event, 10))

\* The descriptions of two sightings of different sources pass both thresholds
\* of tier 3, taken in the order of their sources.
Tier3Alike(i, j) ==
    /\ sighting[i].source_db_id < sighting[j].source_db_id
    /\ RatGeq(CleanedJaccard[<<sighting[i].description, sighting[j].description>>],
              <<1, 4>>)
    /\ RatGeq(Similarity[<<sighting[i].description, sighting[j].description,
                           sighting[i].source_db_id, sighting[j].source_db_id>>],
              <<1, 2>>)

\* Tier 3 has completed on the empty table of a database where twenty-one
\* sightings of two sources or more have the same date, two of them alike: it
\* made no row.
C9_CrowdedDate ==
    /\ AfterRun("tier_3")
    /\ history.start = EmptyBag
    /\ duplicate_candidate = EmptyBag
    /\ \E i, j \in DOMAIN sighting :
          /\ Tier3Alike(i, j)
          /\ j \in OnDate(Take(sighting[i].date_event, 10))
          /\ Cardinality(OnDate(Take(sighting[i].date_event, 10))) = 21

\* C10: every row of tier 3 has a score of at least 0.5, and the descriptions
\* of its two sightings, cleaned of the boilerplate, have a token Jaccard of
\* at least 0.25: a pair that fails either threshold is never stored by tier 3.
C10_Tier3Thresholds ==
    \A r \in Rows(duplicate_candidate) :
        r.match_method = "tier3_desc_fuzzy" =>
            /\ RatGeq(r.similarity_score, <<1, 2>>)
            /\ RatGeq(CleanedJaccard[<<sighting[r.sighting_id_a].description,
                                       sighting[r.sighting_id_b].description>>],
                      <<1, 4>>)

\* Tier 3 has completed on the empty table of a database with three sightings
\* of three sources and one date: it stored a pair whose Jaccard is 0.25, and
\* neither a pair whose Jaccard is lower nor a pair whose Jaccard passes and
\* whose score is below 0.5.
C10_ThresholdsDecide ==
    /\ AfterRun("tier_3")
    /\ history.start = EmptyBag
    /\ Qualifies(DATE_DAY)
    /\ \E r \in Rows(duplicate_candidate) :
          /\ r.match_method = "tier3_desc_fuzzy"
          /\ CleanedJaccard[<<sighting[r.sighting_id_a].description,
                              sighting[r.sighting_id_b].description>>] = <<1, 4>>
    /\ \E i, j \in OnDate(DATE_DAY) :
          /\ sighting[i].source_db_id < sighting[j].source_db_id
          /\ RatLess(CleanedJaccard[<<sighting[i].description, sighting[j].description>>],
                     <<1, 4>>)
          /\ PairRows(duplicate_candidate, i, j) = {}
    /\ \E i, j \in OnDate(DATE_DAY) :
          /\ sighting[i].source_db_id < sighting[j].source_db_id
          /\ RatGeq(CleanedJaccard[<<sighting[i].description, sighting[j].description>>],
                    <<1, 4>>)
          /\ RatLess(Similarity[<<sighting[i].description, sighting[j].description,
                                  sighting[i].source_db_id, sighting[j].source_db_id>>],
                     <<1, 2>>)
          /\ PairRows(duplicate_candidate, i, j) = {}

\* C11: tier 3 considers only pairs that are not in the table when it starts:
\* no batch it works out at its start holds a pair that has a row, and after
\* it has completed each row that was there at the start is the one row of
\* its pair, so the pair has its method and score and no row of tier 3.
C11_Tier3SkipsExisting ==
    /\ [][(pc = "idle" /\ pc' = "tier_3") =>
            \A i \in 1..Len(pending') : \A k \in 1..Len(pending'[i]) :
                PairRows(duplicate_candidate, pending'[i][k][1], pending'[i][k][2]) = {}]_vars
    /\ [](AfterRun("tier_3") =>
            \A r \in Rows(history.start) :
                PairRows(duplicate_candidate, r.sighting_id_a, r.sighting_id_b) = {r})

\* Tier 3 has completed on a table that held the row another tier made for
\* two sightings alike enough for tier 3, on a date tier 3 takes: the row is
\* there and is the only row of the pair.
C11_ExistingPairSkipped ==
    /\ AfterRun("tier_3")
    /\ \E r \in Rows(history.start) :
          /\ r.match_method \in TierMethods \ {"tier3_desc_fuzzy"}
          /\ Qualifies(Take(sighting[r.sighting_id_a].date_event, 10))
          /\ r.sighting_id_b \in OnDate(Take(sighting[r.sighting_id_a].date_event, 10))
          /\ Tier3Alike(r.sighting_id_a, r.sighting_id_b)
                \/ Tier3Alike(r.sighting_id_b, r.sighting_id_a)
          /\ PairRows(duplicate_candidate, r.sighting_id_a, r.sighting_id_b) = {r}

(***************************************************************************)
(* Properties of the functions called alone                                *)
(***************************************************************************)

\* The sightings a grouping has appended, from the first field of each entry.
GroupedIds(groups) ==
    UNION {{groups[k][i][1] : i \in 1..Len(groups[k])} : k \in DOMAIN groups}

\* The number of entries of a grouping.
RECURSIVE GroupedEntries(_, _)
GroupedEntries(groups, keys) ==
    IF keys = {} THEN 0
    ELSE LET k == CHOOSE x \in keys : TRUE
         IN  Len(groups[k]) + GroupedEntries(groups, keys \ {k})

\* The sightings without a date to block on: date_event is NULL or ''.
Undated == {id \in DOMAIN sighting : Falsy(sighting[id].date_event)}

\* The sightings whose city text, read from `column`, normalizes to ''.
Cityless(column) ==
    {id \in DOMAIN sighting : normalize_city(sighting[id].loc[column[id]]) = <<>>}

\* The column each source is grouped by in the tiers: raw_text for UFOCAT and
\* UFO-search, city for the others.
TierColumn ==
    [id \in DOMAIN sighting |->
        IF sighting[id].source_db_id \in {SRC_UFOCAT, SRC_UFOSEARCH}
        THEN "raw_text" ELSE "city"]

\* C12: a sighting whose date is NULL or empty, or whose city text normalizes
\* to the empty string, is in no group that load_source_sightings or
\* load_source_sightings_city_only returns and is not counted (the count is
\* the number of entries grouped, one for a sighting); the load returns its
\* groups and count all the same; and no candidate of tier 1a or tier 2 joins
\* such a sighting.
C12_BlockingExclusion ==
    /\ returned.fn \in {"load_source_sightings", "load_source_sightings_city_only"} =>
          LET column == [id \in DOMAIN sighting |->
                            IF returned.fn = "load_source_sightings" /\ returned.args[2] = TRUE
                            THEN "raw_text" ELSE "city"]
              groups == returned.value.groups
          IN  /\ GroupedIds(groups) \cap (Undated \cup Cityless(column)) = {}
              /\ returned.value.count = Cardinality(GroupedIds(groups))
              /\ returned.value.count = GroupedEntries(groups, DOMAIN groups)
              /\ returned.value.count \in 0..Cardinality(DOMAIN sighting)
    /\ returned.fn \in {"tier_1a", "tier_2"} =>
          \A i \in 1..Len(returned.value) : \A k \in 1..Len(returned.value[i]) :
              {returned.value[i][k][1], returned.value[i][k][2]}
                  \cap (Undated \cup Cityless(TierColumn)) = {}

\* A load of the MUFON sightings that groups one and passes over one without
\* a date, one with an empty date and one with a city that normalizes to ''.
C12_ThreeExcludedOneGrouped ==
    /\ returned.fn = "load_source_sightings"
    /\ returned.args = <<SRC_MUFON, FALSE>>
    /\ returned.value.count = 1
    /\ \E i, j, k \in DOMAIN sighting :
          /\ sighting[i].source_db_id = SRC_MUFON /\ sighting[i].date_event = None
          /\ sighting[j].source_db_id = SRC_MUFON /\ sighting[j].date_event = <<>>
          /\ sighting[k].source_db_id = SRC_MUFON /\ ~Falsy(sighting[k].date_event)
          /\ sighting[k].loc.city = <<"?">>

(***************************************************************************)
(* Properties of the blocking of tier 1 and tier 2                         *)
(***************************************************************************)

\* The methods of the sub-phases that block on the full key (date, city,
\* state): 1a, 2a, 2b and 2d.
FullKeyMethods ==
    {"tier1a_mufon_nuforc", "tier2a_mufon_ufocat", "tier2b_nuforc_ufocat",
     "tier2d_ufosearch_mufon", "tier2d_ufosearch_nuforc", "tier2d_ufosearch_ufocat"}

\* The blocking key of every sighting a database can hold, tabulated.
KeyOf ==
    [s \in Stock |->
        CASE s.source_db_id = 3 -> FullKey(<<s>>, 1, TRUE)
          [] s.source_db_id = 5 -> UfosearchKey(<<s>>, 1)
          [] OTHER -> FullKey(<<s>>, 1, FALSE)] @@ <<>>

\* C13: every row that tier 1 or tier 2 made joins two sightings whose dates
\* agree on their first ten characters and whose grouping city keys are
\* equal, and whose normalized states are equal as well when the sub-phase is
\* one of 1a, 2a, 2b and 2d: sightings of different cities or dates get no
\* row from tier 1 or tier 2.
C13_BlockingSoundness ==
    \A r \in Rows(duplicate_candidate) :
        r.match_method \in TierMethods \ {"tier3_desc_fuzzy"} =>
            LET a == sighting[r.sighting_id_a]
                b == sighting[r.sighting_id_b]
            IN  /\ Take(a.date_event, 10) = Take(b.date_event, 10)
                /\ KeyOf[a][2] = KeyOf[b][2]
                /\ r.match_method \in FullKeyMethods => KeyOf[a][3] = KeyOf[b][3]

\* A run of tier_1a has created a row, and has left without a row a MUFON and
\* a NUFORC sighting of the same date and city whose states differ.
C13_OtherStateUnmatched ==
    /\ AfterRun("tier_1a")
    /\ \E r \in Created : r.match_method = "tier1a_mufon_nuforc"
    /\ \E m, n \in DOMAIN sighting :
          /\ Located(m, 1) /\ Located(n, 2)
          /\ Tier2Blocked(m) /\ Tier2Blocked(n)
          /\ Tier2Key(m)[1] = Tier2Key(n)[1]
          /\ Tier2Key(m)[2] = Tier2Key(n)[2]
          /\ Tier2Key(m)[3] # Tier2Key(n)[3]
          /\ PairRows(duplicate_candidate, m, n) = {}

(***************************************************************************)
(* Properties of insert_candidates called alone                            *)
(***************************************************************************)

\* C14: insert_candidates returns the number of rows it added, the size of
\* the table after the call less its size before, whatever the batch is: that
\* is one for each unordered pair of two different sightings that the batch
\* names and the table did not hold, so that a self-pair, a pair the table
\* holds and a further tuple of a pair of the batch add nothing to it; on an
\* empty batch it returns 0 and leaves the table as it is.
C14_ReturnsRowsAdded ==
    [][returned'.fn = "insert_candidates" =>
          LET candidates == returned'.args[1]
          IN  /\ returned'.value
                     = BagCardinality(duplicate_candidate') - BagCardinality(duplicate_candidate)
              /\ returned'.value
                     = Cardinality({{candidates[k][1], candidates[k][2]} :
                                       k \in {n \in 1..Len(candidates) :
                                                 /\ candidates[n][1] # candidates[n][2]
                                                 /\ PairRows(duplicate_candidate,
                                                             candidates[n][1],
                                                             candidates[n][2]) = {}}})
              /\ candidates = <<>> =>
                    returned'.value = 0 /\ duplicate_candidate' = duplicate_candidate]_vars

\* insert_candidates has returned 1 on a batch of two tuples that name the
\* same pair, one way and the other.
C14_PairTwiceInBatch ==
    /\ returned.fn = "insert_candidates"
    /\ Len(returned.args[1]) = 2
    /\ returned.args[1][1][1] = returned.args[1][2][2]
    /\ returned.args[1][1][2] = returned.args[1][2][1]
    /\ returned.args[1][1][1] # returned.args[1][1][2]
    /\ returned.value = 1
    /\ BagCardinality(duplicate_candidate) = 1

(***************************************************************************)
(* Properties of main() and of processes that run it side by side          *)
(***************************************************************************)

\* C15: whatever way two processes that run tiers on the same database file
\* interleave, the table holds at most one row for each unordered pair, each
\* row once and with sighting_id_a < sighting_id_b, and neither process
\* fails.
C15_ConcurrentWriters ==
    /\ \A r \in Rows(duplicate_candidate) :
          /\ r.sighting_id_a < r.sighting_id_b
          /\ CopiesIn(r, duplicate_candidate) = 1
          /\ PairRows(duplicate_candidate, r.sighting_id_a, r.sighting_id_b) = {r}
    /\ \A p \in DOMAIN main : ~main[p].raised

\* What holds of the table under every interleaving: one row for a pair,
\* once, in canonical order, in the table and in every open transaction.
ConcurrentStoreUnique ==
    \A p \in DOMAIN main :
        LET seen == duplicate_candidate (+) main[p].tx
        IN  \A r \in Rows(seen) :
                /\ r.sighting_id_a < r.sighting_id_b
                /\ CopiesIn(r, seen) = 1
                /\ PairRows(seen, r.sighting_id_a, r.sighting_id_b) = {r}

\* The tiers and the report a process has completed, in order.
RanTiers(p) == SelectSeq(main[p].ran, LAMBDA s : s # "create_indexes")

\* s is the beginning of t.
IsPrefix(s, t) == Len(s) <= Len(t) /\ s = SubSeq(t, 1, Len(s))

\* C16: without --tier, main() runs as with --tier all: tier 1, tier 2, tier 3
\* and then the verification report, in this order; with --tier 1, 2 or 3 it
\* runs that tier alone and no report; with --tier verify it runs the report
\* alone; and the report, and every step of a process started with --tier
\* verify, leaves the candidate, sighting and location tables as they are.
C16_TierSelector ==
    /\ [](\A p \in DOMAIN main :
             main[p].at # 0 =>
                 LET selector == IF main[p].argv = <<>> THEN "all" ELSE main[p].argv[2]
                     steps == CASE selector = "all" ->
                                       <<"tier_1a", "tier_2", "tier_3", "verify">>
                                [] selector = "1" -> <<"tier_1a">>
                                [] selector = "2" -> <<"tier_2">>
                                [] selector = "3" -> <<"tier_3">>
                                [] selector = "verify" -> <<"verify">>
                 IN  /\ IsPrefix(RanTiers(p), steps)
                     /\ main[p].at = 7 => RanTiers(p) = steps)
    /\ [][\A p \in DOMAIN main :
             ( \/ main[p].tier = "verify" /\ main'[p] # main[p]
               \/ main'[p].ran = Append(main[p].ran, "verify") )
             => /\ duplicate_candidate' = duplicate_candidate
                /\ sighting' = sighting]_vars

\* A process started without --tier has returned from main() after the three
\* tiers and the report, on a table with rows.
C16_DefaultRanAll ==
    \E p \in DOMAIN main :
        /\ main[p].argv = <<>>
        /\ main[p].at = 7
        /\ main[p].ran = <<"create_indexes", "tier_1a", "tier_2", "tier_3", "verify">>
        /\ duplicate_candidate # EmptyBag

\* C17: a tier that fails or finds nothing does not keep the other tiers from
\* running: a process started with --tier all whose tier 1 has raised an
\* exception or has found no candidate still runs tier 2 and tier 3, so that
\* once it has ended both are among the steps it completed.
C17_TiersIndependent ==
    \A p \in DOMAIN main :
        ( /\ main[p].tier = "all"
          /\ \/ main[p].at = 7
             \/ main[p].raised /\ main[p].at = 2 )
        => /\ \E k \in 1..Len(main[p].ran) : main[p].ran[k] = "tier_2"
           /\ \E k \in 1..Len(main[p].ran) : main[p].ran[k] = "tier_3"

\* What holds in the place of C17: a tier that finds nothing does not keep the
\* others from running, and the rows committed stay in the table, whatever
\* fails afterwards.
EmptyTierAndCommittedRows ==
    /\ [](\A p \in DOMAIN main :
             main[p].tier = "all" /\ main[p].at = 7 =>
                 main[p].ran = <<"create_indexes", "tier_1a", "tier_2", "tier_3", "verify">>)
    /\ [][\A r \in Rows(duplicate_candidate) : r \in Rows(duplicate_candidate')]_vars

\* C19: no step of main() - a tier, its insert_candidates calls, the report -
\* inserts, updates or deletes a row of the sighting table or of the location
\* table: where tables change, it is duplicate_candidate that does.
C19_SightingsReadOnly == [][sighting' = sighting]_vars

\* Two processes have returned from main(), one of them having run the tiers
\* and the report, and the table has rows.
C19_TiersAndReportRan ==
    /\ \A p \in DOMAIN main : main[p].at = 7
    /\ \E p \in DOMAIN main : main[p].tier = "all"
    /\ \E p \in DOMAIN main : main[p].tier = "verify"
    /\ duplicate_candidate # EmptyBag

(***************************************************************************)
(* Properties of the candidate list of tier 2                              *)
(***************************************************************************)

\* The tuples of a candidate list that come from the key group of its k-th
\* tuple: the first sighting of a tuple is of the source whose groups the
\* sub-phase walks, and its key is the key of the group (date and city for
\* UPDB, which is grouped without the state).
KeyGroupPairs(batch, k) ==
    LET key(id) == IF sighting[id].source_db_id = SRC_UPDB
                   THEN <<Tier2Key(id)[1], Tier2Key(id)[2]>>
                   ELSE Tier2Key(id)
    IN  Cardinality({j \in 1..Len(batch) : key(batch[j][1]) = key(batch[k][1])})

\* The cross product of the largest key group of a candidate list.
LargestKeyGroup(batch) ==
    IF batch = <<>> THEN 0
    ELSE LET sizes == {KeyGroupPairs(batch, k) : k \in 1..Len(batch)}
         IN  CHOOSE n \in sizes : \A m \in sizes : m <= n

\* C18: in every sub-phase of tier_2 (2a, 2b, 2c, 2d) the candidate list is
\* handed to insert_candidates once it reaches the batch threshold, so no
\* list handed over is longer than the threshold plus the cross product of
\* one key group.
C18_Tier2ListBounded ==
    returned.fn = "tier_2" =>
        \A i \in 1..Len(returned.value) :
            Len(returned.value[i]) <= FLUSH_PAIRS + LargestKeyGroup(returned.value[i])

\* The same bound for the two sub-phases that have the flush in their loop,
\* 2b and 2c UPDB <-> UFOCAT.
FlushingSubPhasesBounded ==
    returned.fn = "tier_2" =>
        \A i \in 1..Len(returned.value) :
            (returned.value[i] # <<>>
             /\ returned.value[i][1][4] \in {"tier2b_nuforc_ufocat", "tier2c_updb_ufocat"})
                => Len(returned.value[i])
                       <= FLUSH_PAIRS + LargestKeyGroup(returned.value[i])

(***************************************************************************)
(* Properties of normalize_city called alone                               *)
(***************************************************************************)

\* C20: normalize_city is idempotent: for every input x, "Springfield (IL)?"
\* and the like included, normalizing the value normalize_city(x) returned
\* gives that value again.
C20_NormalizeCityIdempotent ==
    returned.fn = "normalize_city" => normalize_city(returned.value) = returned.value

(***************************************************************************)
(* Properties of the scorer and of the stripping called alone              *)
(***************************************************************************)

\* A call of compute_similarity whose source ids select no stripping.
Unstripped ==
    /\ returned.fn = "compute_similarity"
    /\ returned.args[3] = SRC_UFOCAT
    /\ returned.args[4] = SRC_UFOCAT

\* C21: the score of a non-empty description with itself is 0.95 when the
\* description has 20 characters or more after stripping, and 1.0 when it is
\* shorter, also when it holds no word token.
C21_SelfSimilarity ==
    (/\ Unstripped
     /\ returned.args[1] = returned.args[2]
     /\ ~Falsy(returned.args[1]))
        => returned.value = IF Len(strip(returned.args[1])) >= 20
                            THEN <<19, 20>> ELSE <<1, 1>>

\* The same for the descriptions that hold a word token.
SelfSimilarityOfWords ==
    (/\ Unstripped
     /\ returned.args[1] = returned.args[2]
     /\ ~Falsy(returned.args[1])
     /\ Tokens(returned.args[1]) # {})
        => returned.value = IF Len(strip(returned.args[1])) >= 20
                            THEN <<19, 20>> ELSE <<1, 1>>

\* C22: when the token Jaccard of two descriptions is below 0.03, the score
\* is the token Jaccard itself, also when one description of 20 characters
\* or more is the start of the other.
C22_JaccardPreFilter ==
    (Unstripped
     /\ RatLess(token_jaccard(returned.args[1], returned.args[2]), <<3, 100>>))
        => returned.value = token_jaccard(returned.args[1], returned.args[2])

\* The same for the pairs the starts-with shortcut does not apply to.
JaccardPreFilterWithoutShortcut ==
    (/\ Unstripped
     /\ RatLess(token_jaccard(returned.args[1], returned.args[2]), <<3, 100>>)
     /\ returned.value # <<19, 20>>)
        => returned.value = token_jaccard(returned.args[1], returned.args[2])

\* C25: the source-specific stripping is idempotent: strip_nuforc_prefix and
\* strip_mufon_boilerplate, applied to the text they returned, return it
\* unchanged.
C25_StrippingIdempotent ==
    /\ returned.fn = "strip_nuforc_prefix"
          => strip_nuforc_prefix(returned.value) = returned.value
    /\ returned.fn = "strip_mufon_boilerplate"
          => strip_mufon_boilerplate(returned.value) = returned.value

\* C28: swapping the two descriptions together with their source ids changes
\* the score by less than 0.01.
C28_ScoreSymmetric ==
    returned.fn = "compute_similarity" =>
        LET forth == returned.value
            back  == compute_similarity(returned.args[2], returned.args[1],
                                        returned.args[4], returned.args[3])
            diff  == forth[1] * back[2] - back[1] * forth[2]
        IN  100 * (IF diff < 0 THEN 0 - diff ELSE diff) < forth[2] * back[2]

\* The score of a description with itself does not depend on the order.
ScoreSymmetricOnEqual ==
    (returned.fn = "compute_similarity" /\ returned.args[1] = returned.args[2]) =>
        returned.value = compute_similarity(returned.args[2], returned.args[1],
                                            returned.args[4], returned.args[3])

(***************************************************************************)
(* Properties of the key of the UFO-search grouping                        *)
(***************************************************************************)

\* The city text of a raw_text that is a city text without a comma, a comma
\* and a state.
CityTextOf(raw_text) ==
    LET commas == {k \in 1..Len(raw_text) : raw_text[k] = ","}
    IN  SubSeq(raw_text, 1, (CHOOSE k \in commas : \A j \in commas : k <= j) - 1)

\* C26: the city of the key a record is grouped under is the normalize_city
\* form of the city text of the record, in the UFO-search grouping of
\* sub-phase 2d too, whose key holds the city parse_ufosearch_city_state
\* returns; so records whose city texts normalize to the same value come
\* under the same city.
C26_KeyCityNormalized ==
    (returned.fn = "parse_ufosearch_city_state" /\ returned.value[1] # None)
        => returned.value[1] = normalize_city(CityTextOf(returned.args[1]))

\* The city parsed is the city text stripped and in upper case, and it is
\* the normalize_city form when normalize_city has nothing else to remove.
ParsedCityUpperStripped ==
    (returned.fn = "parse_ufosearch_city_state" /\ returned.value[1] # None)
        => /\ returned.value[1] = upper(strip(CityTextOf(returned.args[1])))
           /\ returned.value[1] = normalize_city(returned.value[1])
                 => returned.value[1] = normalize_city(CityTextOf(returned.args[1]))

(***************************************************************************)
(* Properties of the score of empty descriptions                           *)
(***************************************************************************)

\* A description that is null or empty, or that the stripping selected by
\* its source id leaves empty.
Emptied(desc, source) ==
    \/ Falsy(desc)
    \/ source = 2 /\ Falsy(strip_nuforc_prefix(desc))
    \/ source = 1 /\ Falsy(strip_mufon_boilerplate(desc))

\* C24: compute_similarity returns a value, and the value is exactly 0.0,
\* whenever one of the descriptions is null or empty or becomes empty by the
\* stripping its source id selects, as a NUFORC description that is nothing
\* but the 'NUFORC UFO Sighting NNNNN' prefix does. (Tier 1 and tier 2 insert
\* every pair of a key whatever its score is: C6.)
C24_EmptyScoresZero ==
    (returned.fn = "compute_similarity"
     /\ \/ Emptied(returned.args[1], returned.args[3])
        \/ Emptied(returned.args[2], returned.args[4]))
        => returned.value = <<0, 1>>

\* A NUFORC description that is only the prefix, scored 0.0 against the same
\* text of a source whose text is not stripped.
C24_PrefixOnlyScoredZero ==
    /\ returned.fn = "compute_similarity"
    /\ returned.args[1] = returned.args[2]
    /\ ~Falsy(returned.args[1])
    /\ returned.args[3] = 2
    /\ returned.args[4] = 3
    /\ Falsy(strip_nuforc_prefix(returned.args[1]))
    /\ returned.value = <<0, 1>>

(***************************************************************************)
(* Properties of the scores and of the UPDB rows the tiers write           *)
(***************************************************************************)

\* C23: every row a tier writes has a similarity_score that is not null and
\* lies in [0, 1], the score being what compute_similarity returned for the
\* two descriptions and source ids of the pair.
C23_ScoreBounded ==
    \A r \in Rows(duplicate_candidate) :
        r.match_method \in TierMethods =>
            /\ r.similarity_score # None
            /\ r.similarity_score[2] > 0
            /\ 0 <= r.similarity_score[1]
            /\ r.similarity_score[1] <= r.similarity_score[2]

\* Rows of the tiers with the score 0.0 and with a score of the alignment
\* that is strictly between 0 and 1.
C23_ScoresOfTwoPaths ==
    /\ \E r \in Rows(duplicate_candidate) :
          r.match_method \in TierMethods /\ r.similarity_score = <<0, 1>>
    /\ \E r \in Rows(duplicate_candidate) :
          /\ r.match_method \in TierMethods
          /\ r.similarity_score \notin {<<0, 1>>, <<19, 20>>, <<1, 1>>}

\* The methods of the sub-phases of tier 2.
Tier2Methods == TierMethods \ {"tier1a_mufon_nuforc", "tier3_desc_fuzzy"}

\* C27: a UPDB sighting whose country is not 'US' is in no row of tier 2, and
\* after tier_2 completes a UPDB sighting of the country 'US' has a row with
\* every MUFON, NUFORC or UFOCAT sighting of the same 10-character date and
\* the same normalized city, whatever their states are.
C27_UpdbCityOnlyUS ==
    /\ \A r \in Rows(duplicate_candidate) :
          r.match_method \in Tier2Methods =>
              \A id \in {r.sighting_id_a, r.sighting_id_b} :
                  sighting[id].source_db_id = 4 => sighting[id].loc.country = <<"U", "S">>
    /\ AfterRun("tier_2") =>
          \A x, y \in DOMAIN sighting :
              ( /\ sighting[x].source_db_id = 4
                /\ sighting[x].loc.country = <<"U", "S">>
                /\ sighting[y].source_db_id \in {1, 2, 3}
                /\ ShareTier2Key(x, y) )
              => PairRows(duplicate_candidate, x, y) # {}

\* Tier 2 has completed on a database with a MUFON sighting, a UPDB sighting
\* of the US and a UPDB sighting of another country, all of one date and
\* city: the first UPDB sighting has its row with the MUFON sighting, whose
\* state it does not have, and the other has none.
C27_USPairedOtherCountryNot ==
    /\ AfterRun("tier_2")
    /\ \E x, y, z \in DOMAIN sighting :
          /\ sighting[x].source_db_id = 4 /\ sighting[x].loc.country = <<"U", "S">>
          /\ sighting[z].source_db_id = 4 /\ sighting[z].loc.country \notin {None, <<"U", "S">>}
          /\ sighting[y].source_db_id = 1
          /\ sighting[x].loc.state # sighting[y].loc.state
          /\ sighting[x].date_event = sighting[y].date_event
          /\ sighting[z].date_event = sighting[y].date_event
          /\ sighting[x].loc.city = sighting[y].loc.city
          /\ sighting[z].loc.city = sighting[y].loc.city
          /\ \E r \in PairRows(duplicate_candidate, x, y) :
                r.match_method = "tier2c_updb_mufon"
          /\ PairRows(duplicate_candidate, z, y) = {}

(***************************************************************************)
(* Properties of the tiers run in any order, and of the report             *)
(***************************************************************************)

\* Tier 1a pairs x with y: a MUFON and a NUFORC sighting of one full key.
Tier1Pairs(x, y) ==
    /\ Located(x, 1) /\ Located(y, 2)
    /\ CityKey(x)[2] # <<>>
    /\ CityKey(x) = CityKey(y)

\* Tier 2 pairs x with y: sightings of two sources a sub-phase takes that
\* share the applicable key.
Tier2Pairs(x, y) ==
    /\ {sighting[x].source_db_id, sighting[y].source_db_id}
           \in SourcePairs \ {{1, 2}, {4, 5}}
    /\ ShareTier2Key(x, y)

\* Tier 3 pairs x with y: sightings of one qualifying date whose descriptions
\* pass the thresholds.
Tier3Pairs(x, y) ==
    /\ sighting[x].date_event # None
    /\ x \in OnDate(Take(sighting[x].date_event, 10))
    /\ y \in OnDate(Take(sighting[x].date_event, 10))
    /\ Qualifies(Take(sighting[x].date_event, 10))
    /\ Tier3Alike(x, y)

\* Three runs of main(), one with --tier 1, one with --tier 2 and one with
\* --tier 3, have all returned; they started one after the other or side by
\* side, in any order, on the empty table.
EachTierRanOnce ==
    /\ \A p \in DOMAIN main : main[p].at = 7
    /\ \A c \in {"1", "2", "3"} : \E p \in DOMAIN main : main[p].tier = c

\* C29: after tier 1, tier 2 and tier 3 have run once each, the unordered
\* pairs of the table are the same whatever the order of the runs was: the
\* pairs one of the tiers pairs by the sightings alone. (The method and the
\* score of a pair that more than one tier pairs are those of the tier that
\* came first.)
C29_PairsWhateverTheOrder ==
    EachTierRanOnce =>
        {<<r.sighting_id_a, r.sighting_id_b>> : r \in Rows(duplicate_candidate)}
            = {xy \in (DOMAIN sighting) \X (DOMAIN sighting) :
                 /\ xy[1] < xy[2]
                 /\ \/ Tier1Pairs(xy[1], xy[2]) \/ Tier1Pairs(xy[2], xy[1])
                    \/ Tier2Pairs(xy[1], xy[2])
                    \/ Tier3Pairs(xy[1], xy[2]) \/ Tier3Pairs(xy[2], xy[1])}

\* The three runs have returned, tier 3 came before tier 1: a pair that both
\* pair has the method of tier 3, and the table has a pair of tier 1 only too.
C29_Tier3BeforeTier1 ==
    /\ EachTierRanOnce
    /\ \E r \in Rows(duplicate_candidate) :
          /\ r.match_method = "tier3_desc_fuzzy"
          /\ \/ Tier1Pairs(r.sighting_id_a, r.sighting_id_b)
             \/ Tier1Pairs(r.sighting_id_b, r.sighting_id_a)
    /\ \E r \in Rows(duplicate_candidate) : r.match_method = "tier1a_mufon_nuforc"

\* C30: the verification report completes without raising on every database,
\* the one without sightings and candidates included: no run of main() ends
\* with an exception in verify.
C30_VerifyCompletes ==
    \A p \in DOMAIN main :
        ~(main[p].raised /\ main[p].at = 5)

\* The same on the databases that have a sighting.
VerifyCompletesWithSightings ==
    Len(sighting) > 0 => \A p \in DOMAIN main : ~(main[p].raised /\ main[p].at = 5)

=============================================================================
